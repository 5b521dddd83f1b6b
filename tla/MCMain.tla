------------------------------- MODULE MCMain -------------------------------
\* Two starts of the client on one device: a service and a test backup.
EXTENDS Main

CONSTANTS service, test, jobA, jobB, here, there

TestOfJobA == [p \in {service, test} |-> IF p = test THEN jobA ELSE None]
OneEach == [j \in {jobA, jobB} |-> IF j = jobA THEN here ELSE there]

\* The options of restic that the rows below use.
ResticFlags   == {<<"--json">>, <<"--one-file-system">>}
ResticOptions == {<<"--exclude">>, <<"--tag">>, <<"--limit-upload">>}

\* Rows with and without the columns that may be NULL.  restic_args: none, a
\* flag, an option with its value, one of the client's own options and a path;
\* <<>> is an element that is no string.
RowOf ==
  [j \in {jobA, jobB} |->
     [id : {"id1"}, name : {"home"}, origin_name : {"old", None}, account_id : {None},
      source_paths     : {<<<<"/home">>, <<"/etc">>>>},
      exclude_patterns : {None, <<<<"*.o">>, <<"*.tmp">>>>},
      tags             : {None, <<<<"daily">>>>},
      restic_args      : {None, <<<<"--one-file-system">>, <<>>>>,
                          <<<<"--limit-upload">>, <<>>, <<"100">>>>,
                          <<<<"/srv">>, <<"--exclude">>, <<"*.bak">>>>}]]

ASSUME RowsArePlain == \A j \in Jobs : \A row \in Rows[j] : PlainRow(row)

LocalFiles ==
  {[text |-> "malformed", id |-> "", host |-> "", user |-> "", log_file |-> ""],
   [text |-> "yaml", id |-> "pc", host |-> "", user |-> "u", log_file |-> "log"],
   [text |-> "yaml", id |-> "pc", host |-> "db", user |-> "u", log_file |-> ".."],
   [text |-> "yaml", id |-> "pc", host |-> "db", user |-> "u", log_file |-> "/var/log/client"]}

Global(k, v) == [device |-> None, key |-> k, value |-> v]
Own(k, v)    == [device |-> here, key |-> k, value |-> v]

\* The defaults with a repository, and with two and one that is the device's own.
Configured == (Defaults \ {Global("repository_url", "")}) \cup {Global("repository_url", "repo")}
InUse ==
  {Configured,
   Defaults \cup {Global("repository_url", "second"), Own("repository_url", "repo"),
                  Own("max_concurrent_backups", "0")}}

EditedRows == {Global("repository_url", ""), Global("repository_url", "mirror"),
               Own("repository_url", "mirror"), Own("max_concurrent_backups", "many")}
=============================================================================
