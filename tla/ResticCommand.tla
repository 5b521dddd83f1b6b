---------------------------- MODULE ResticCommand ----------------------------
(***************************************************************************)
(* The command line that src/backup/restic.rs builds, and how restic reads *)
(* it.  An argument is the tuple of the pieces it is formatted from.       *)
(***************************************************************************)
EXTENDS Integers, Sequences, Functions

CONSTANTS
  Flags,         \* restic's options without a value (a bound: any set of words)
  ValueOptions,  \* restic's options with a value
  None

\* An option is one word.  The client itself uses three.
ASSUME OptionsAssumption ==
  /\ \A option \in Flags \cup ValueOptions : option = <<option[1]>>
  /\ Flags \cap ValueOptions = {}
  /\ <<"--json">> \in Flags
  /\ {<<"--exclude">>, <<"--tag">>} \subseteq ValueOptions

\* A column that may be NULL: a list of arguments, or one piece of one.
Listed(list)    == IF list = None THEN <<>> ELSE list
Present(x, arg) == IF x = None THEN <<>> ELSE <<arg>>

\* BackupJob::get_restic_tags
GetResticTags(job) ==
  <<<<"backup:", job.id>>, <<"backup_name=", job.name>>>>
  \o Present(job.origin_name, <<"origin=", job.origin_name>>)
  \o Present(job.account_id, <<"account_id=", job.account_id>>)

\* Mutant: one option, and then all of its values (arg(..).args(..)).
OnceWith(option, values) == IF values = <<>> THEN <<>> ELSE <<<<option>>>> \o values

\* arg(option).arg(value), for each value.
EachWith(option, values) ==
  [i \in 1 .. 2 * Len(values) |-> IF i % 2 = 1 THEN <<option>> ELSE values[i \div 2]]

\* restic_args is JSON: all that is no array is ignored (None here), and so is
\* an element that is no string (<<>> here).
Strings(json) == SelectSeq(Listed(json), LAMBDA arg : arg # <<>>)

\* build_backup_command: the arguments of `restic backup`, in their order.
BuildArgs(job) ==
  <<<<"--json">>>>
  \o job.source_paths
  \o EachWith("--exclude", Listed(job.exclude_patterns))
  \o EachWith("--tag", GetResticTags(job))
  \o EachWith("--tag", Listed(job.tags))
  \o Strings(job.restic_args)

\* build_backup_command: the environment.  An empty cache directory is left out.
BuildEnv(config) ==
  [RESTIC_REPOSITORY |-> config.repository_url,
   RESTIC_PASSWORD   |-> config.repository_password,
   RESTIC_CACHE_DIR  |-> IF config.repository_cache_dir = "" THEN None
                         ELSE config.repository_cache_dir]

-----------------------------------------------------------------------------
(* Restic: an option with a value takes the argument after it, wherever it *)
(* stands; what neither is an option nor taken by one is a source.  The    *)
(* value of an option is not itself spelled like an option here.           *)

Options == Flags \cup ValueOptions

IsOption(args, k) == args[k] \in Options
IsTaken(args, k)  == k > 1 /\ args[k - 1] \in ValueOptions

FlagsGiven(args)      == {args[k] : k \in {i \in 1 .. Len(args) : args[i] \in Flags}}
TakenBy(args, option) == {args[k] : k \in {i \in 2 .. Len(args) : args[i - 1] = option}}
Sources(args) ==
  {args[k] : k \in {i \in 1 .. Len(args) : ~IsOption(args, i) /\ ~IsTaken(args, i)}}

\* The tags of a row: what identifies the job, and what the user adds.
TagsOf(job) ==
  {<<"backup:", job.id>>, <<"backup_name=", job.name>>}
    \cup {t \in {<<"origin=", job.origin_name>>} : job.origin_name # None}
    \cup {t \in {<<"account_id=", job.account_id>>} : job.account_id # None}
    \cup Range(Listed(job.tags))

\* What the row gives to an option.
ValuesOf(job, option) ==
  CASE option = <<"--exclude">> -> Range(Listed(job.exclude_patterns))
    [] option = <<"--tag">>     -> TagsOf(job)
    [] OTHER                    -> {}

\* Restic reads the row as it is meant: its sources, patterns and tags are those
\* of the columns, and restic_args, "additional restic CLI arguments", mean what
\* they mean by themselves; none of them is swallowed by what stands before it.
ReadAsMeant(job) ==
  LET args  == BuildArgs(job)
      extra == Strings(job.restic_args)
  IN
  /\ Sources(args) = Range(job.source_paths) \cup Sources(extra)
  /\ FlagsGiven(args) = {<<"--json">>} \cup FlagsGiven(extra)
  /\ \A option \in ValueOptions :
       TakenBy(args, option) = ValuesOf(job, option) \cup TakenBy(extra, option)

\* The paths, patterns and tags of a row, none of which is spelled like an
\* option; restic_args may hold any strings.
IsList(list)  == list \in Seq(Range(list))
IsPlain(list) == IsList(list) /\ Range(list) \cap Options = {}
PlainRow(job) ==
  /\ IsPlain(job.source_paths)
  /\ IsPlain(Listed(job.exclude_patterns)) /\ IsPlain(Listed(job.tags))
  /\ IsList(Strings(job.restic_args))
=============================================================================
