------------------------ MODULE ResticCommandProofs ------------------------
(***************************************************************************)
(* How restic reads the command line of build_backup_command, for every    *)
(* row of backup_jobs whose paths, patterns and tags are not spelled like   *)
(* an option, and every set of options that restic may have.               *)
(***************************************************************************)
EXTENDS ResticCommand, SequenceTheorems, TLAPS

\* The argument at k follows the option.
Takes(args, k, option) == k > 1 /\ args[k - 1] = option

\* No option waits for its value at the end of the list.
Closed(args) == Len(args) > 0 => args[Len(args)] \notin ValueOptions

-----------------------------------------------------------------------------
(* Lists *)

LEMMA FunctionIsList ==
  ASSUME NEW S, NEW n \in Nat, NEW f \in [1 .. n -> S]
  PROVE  f \in Seq(S)
OBVIOUS

LEMMA Concat ==
  ASSUME NEW a, NEW b, IsList(a), IsList(b)
  PROVE  /\ IsList(a \o b) /\ Range(a \o b) = Range(a) \cup Range(b)
         /\ Len(a) \in Nat /\ Len(b) \in Nat /\ Len(a \o b) = Len(a) + Len(b)
         /\ \A i \in 1 .. Len(a) : (a \o b)[i] = a[i]
         /\ \A i \in 1 .. Len(b) : (a \o b)[Len(a) + i] = b[i]
<1> DEFINE S == Range(a) \cup Range(b)
<1>1. a \in Seq(S) /\ b \in Seq(S)
  BY SeqMonotonic DEF IsList
<1>2. /\ a \o b \in Seq(S) /\ Len(a \o b) = Len(a) + Len(b)
      /\ Len(a) \in Nat /\ Len(b) \in Nat
      /\ \A i \in 1 .. Len(a) : (a \o b)[i] = a[i]
      /\ \A i \in 1 .. Len(b) : (a \o b)[Len(a) + i] = b[i]
  BY <1>1
<1>3. Range(a \o b) = S
  BY <1>1, RangeConcatenation
<1>. QED
  BY <1>2, <1>3 DEF IsList

\* A list after one that ends with no open option is read as if it were alone.
LEMMA ReadConcat ==
  ASSUME NEW a, NEW b, IsList(a), IsList(b), Closed(a)
  PROVE  /\ \A option \in ValueOptions :
              TakenBy(a \o b, option) = TakenBy(a, option) \cup TakenBy(b, option)
         /\ FlagsGiven(a \o b) = FlagsGiven(a) \cup FlagsGiven(b)
         /\ Sources(a \o b) = Sources(a) \cup Sources(b)
         /\ Closed(b) => Closed(a \o b)
<1> DEFINE c == a \o b
           m == Len(a)
           n == Len(b)
<1>1. /\ m \in Nat /\ n \in Nat /\ Len(c) = m + n
      /\ \A i \in 1 .. m : c[i] = a[i]
      /\ \A i \in 1 .. n : c[m + i] = b[i]
  BY Concat
<1> HIDE DEF c
<1>2. ASSUME NEW option \in ValueOptions
      PROVE  /\ \A k \in 1 .. m : Takes(c, k, option) <=> Takes(a, k, option)
             /\ \A k \in 1 .. n : Takes(c, m + k, option) <=> Takes(b, k, option)
  <2>1. ASSUME NEW k \in 1 .. m PROVE Takes(c, k, option) <=> Takes(a, k, option)
    <3>1. k > 1 => k - 1 \in 1 .. m
      BY <1>1
    <3>. QED
      BY <1>1, <3>1 DEF Takes
  <2>2. ASSUME NEW k \in 1 .. n PROVE Takes(c, m + k, option) <=> Takes(b, k, option)
    <3>1. CASE k = 1 /\ m > 0
      <4>1. c[m + k - 1] = a[m]
        BY <1>1, <3>1
      <4>2. a[m] # option
        BY <3>1 DEF Closed
      <4>. QED
        BY <3>1, <4>1, <4>2 DEF Takes
    <3>2. CASE k = 1 /\ m = 0
      BY <3>2 DEF Takes
    <3>3. CASE k > 1
      <4>1. k - 1 \in 1 .. n /\ m + k > 1 /\ m + k - 1 = m + (k - 1)
        BY <1>1, <3>3
      <4>2. c[m + k - 1] = b[k - 1]
        BY <1>1, <4>1
      <4>. QED
        BY <3>3, <4>1, <4>2 DEF Takes
    <3>. QED
      BY <1>1, <3>1, <3>2, <3>3
  <2>. QED
    BY <2>1, <2>2
<1>3. \A k \in 1 .. m + n : k \in 1 .. m \/ (k - m \in 1 .. n /\ k = m + (k - m))
  BY <1>1
<1>4. ASSUME NEW option \in ValueOptions
      PROVE  TakenBy(c, option) = TakenBy(a, option) \cup TakenBy(b, option)
  <2>0. \A list : TakenBy(list, option) = {list[k] : k \in {i \in 2 .. Len(list) : Takes(list, i, option)}}
    BY DEF TakenBy, Takes
  <2>1. ASSUME NEW k \in 2 .. m + n, Takes(c, k, option)
        PROVE  c[k] \in TakenBy(a, option) \cup TakenBy(b, option)
    <3>1. CASE k \in 1 .. m
      BY <1>1, <1>2, <2>0, <2>1, <3>1
    <3>2. CASE k - m \in 1 .. n /\ k = m + (k - m)
      <4>1. Takes(b, k - m, option) /\ c[k] = b[k - m]
        BY <1>1, <1>2, <2>1, <3>2
      <4>2. k - m \in 2 .. n
        BY <1>1, <3>2, <4>1 DEF Takes
      <4>. QED
        BY <2>0, <4>1, <4>2
    <3>. QED
      BY <1>1, <1>3, <3>1, <3>2
  <2>2. ASSUME NEW k \in 2 .. m, Takes(a, k, option) PROVE a[k] \in TakenBy(c, option)
    BY <1>1, <1>2, <2>0, <2>2
  <2>3. ASSUME NEW k \in 2 .. n, Takes(b, k, option) PROVE b[k] \in TakenBy(c, option)
    <3>1. m + k \in 2 .. m + n /\ c[m + k] = b[k] /\ Takes(c, m + k, option)
      BY <1>1, <1>2, <2>3
    <3>. QED
      BY <1>1, <2>0, <3>1
  <2>. QED
    BY <1>1, <2>0, <2>1, <2>2, <2>3
<1>5. ASSUME NEW C \in SUBSET (1 .. Len(c)), NEW A \in SUBSET (1 .. Len(a)),
             NEW B \in SUBSET (1 .. Len(b)),
             \A k \in 1 .. m : k \in C <=> k \in A,
             \A k \in 1 .. n : m + k \in C <=> k \in B
      PROVE  {c[k] : k \in C} = {a[k] : k \in A} \cup {b[k] : k \in B}
  <2>1. ASSUME NEW k \in C PROVE c[k] \in {a[i] : i \in A} \cup {b[i] : i \in B}
    <3>0. k \in 1 .. m + n
      BY <1>1
    <3>1. CASE k \in 1 .. m
      BY <1>1, <1>5, <3>1
    <3>2. CASE k - m \in 1 .. n /\ k = m + (k - m)
      <4>1. k - m \in B /\ c[k] = b[k - m]
        BY <1>1, <1>5, <3>2
      <4>. QED
        BY <4>1
    <3>. QED
      BY <1>3, <3>0, <3>1, <3>2
  <2>2. ASSUME NEW k \in A PROVE a[k] \in {c[i] : i \in C}
    BY <1>1, <1>5
  <2>3. ASSUME NEW k \in B PROVE b[k] \in {c[i] : i \in C}
    <3>1. m + k \in C /\ c[m + k] = b[k]
      BY <1>1, <1>5
    <3>. QED
      BY <3>1
  <2>. QED
    BY <2>1, <2>2, <2>3
<1>6. FlagsGiven(c) = FlagsGiven(a) \cup FlagsGiven(b)
  <2> DEFINE At(args) == {i \in 1 .. Len(args) : args[i] \in Flags}
  <2>1. /\ \A k \in 1 .. m : k \in At(c) <=> k \in At(a)
        /\ \A k \in 1 .. n : m + k \in At(c) <=> k \in At(b)
    BY <1>1
  <2>2. \A list : At(list) \in SUBSET (1 .. Len(list))
    OBVIOUS
  <2>3. \A list : FlagsGiven(list) = {list[k] : k \in At(list)}
    BY DEF FlagsGiven
  <2> HIDE DEF At
  <2>. QED
    BY <1>5, <2>1, <2>2, <2>3
<1>7. Sources(c) = Sources(a) \cup Sources(b)
  <2> DEFINE At(args) == {i \in 1 .. Len(args) : ~IsOption(args, i) /\ ~IsTaken(args, i)}
  <2>1. \A args, k : IsTaken(args, k) <=> \E option \in ValueOptions : Takes(args, k, option)
    BY DEF IsTaken, Takes
  <2>2. /\ \A k \in 1 .. m : IsTaken(c, k) <=> IsTaken(a, k)
        /\ \A k \in 1 .. n : IsTaken(c, m + k) <=> IsTaken(b, k)
    BY <1>2, <2>1
  <2>3. /\ \A k \in 1 .. m : k \in At(c) <=> k \in At(a)
        /\ \A k \in 1 .. n : m + k \in At(c) <=> k \in At(b)
    BY <1>1, <2>2 DEF IsOption
  <2>4. \A list : At(list) \in SUBSET (1 .. Len(list))
    OBVIOUS
  <2>5. \A list : Sources(list) = {list[k] : k \in At(list)}
    BY DEF Sources
  <2> HIDE DEF At
  <2>. QED
    BY <1>5, <2>3, <2>4, <2>5
<1>8. Closed(b) => Closed(c)
  <2>1. CASE n = 0
    BY <1>1, <2>1 DEF Closed
  <2>2. CASE n > 0
    <3>1. c[m + n] = b[n]
      BY <1>1, <2>2
    <3>. QED
      BY <1>1, <2>2, <3>1 DEF Closed
  <2>. QED
    BY <1>1, <2>1, <2>2
<1>. QED
  BY <1>4, <1>6, <1>7, <1>8 DEF c

\* Words that are no options are sources, all of them.
LEMMA ReadPlain ==
  ASSUME NEW list, IsPlain(list)
  PROVE  /\ IsList(list) /\ Closed(list)
         /\ \A option \in ValueOptions : TakenBy(list, option) = {}
         /\ FlagsGiven(list) = {}
         /\ Sources(list) = Range(list)
<1>1. /\ IsList(list) /\ Len(list) \in Nat
      /\ Range(list) = {list[i] : i \in 1 .. Len(list)}
  BY RangeEquality DEF IsPlain, IsList
<1>2. \A i \in 1 .. Len(list) : list[i] \notin Flags /\ list[i] \notin ValueOptions
  BY <1>1 DEF IsPlain, Options
<1>3. \A k \in 1 .. Len(list) : k > 1 => k - 1 \in 1 .. Len(list)
  BY <1>1
<1>4. ASSUME NEW option \in ValueOptions PROVE TakenBy(list, option) = {}
  BY <1>1, <1>2, <1>3 DEF TakenBy
<1>5. Sources(list) = Range(list) /\ FlagsGiven(list) = {}
  BY <1>1, <1>2, <1>3 DEF Sources, IsOption, IsTaken, FlagsGiven, Options
<1>6. Closed(list)
  BY <1>1, <1>2 DEF Closed
<1>. QED
  BY <1>1, <1>4, <1>5, <1>6

\* An option before each of its values: it takes all of them.
LEMMA ReadEachWith ==
  ASSUME NEW name, <<name>> \in ValueOptions, NEW values, IsPlain(values)
  PROVE  /\ IsList(EachWith(name, values)) /\ Closed(EachWith(name, values))
         /\ TakenBy(EachWith(name, values), <<name>>) = Range(values)
         /\ \A other \in ValueOptions \ {<<name>>} : TakenBy(EachWith(name, values), other) = {}
         /\ FlagsGiven(EachWith(name, values)) = {}
         /\ Sources(EachWith(name, values)) = {}
<1> DEFINE list == EachWith(name, values)
           n == Len(values)
<1>1. n \in Nat /\ Range(values) = {values[i] : i \in 1 .. n}
  BY RangeEquality DEF IsPlain, IsList
<1>2. \A i \in 1 .. n : values[i] \notin Flags /\ values[i] \notin ValueOptions
  BY <1>1 DEF IsPlain, Options
<1>3. /\ list = [i \in 1 .. 2 * n |-> IF i % 2 = 1 THEN <<name>> ELSE values[i \div 2]]
      /\ 2 * n \in Nat
  BY <1>1 DEF EachWith
<1> HIDE DEF list
<1>4. IsList(list) /\ Len(list) = 2 * n
  <2>1. DOMAIN list = 1 .. 2 * n /\ \A i \in 1 .. 2 * n : list[i] \in Range(list)
    BY <1>3 DEF Range
  <2>2. list \in [1 .. 2 * n -> Range(list)]
    BY <1>3, <2>1
  <2>3. list \in Seq(Range(list))
    BY <1>3, <2>2, FunctionIsList
  <2>4. Len(list) = 2 * n
    BY <1>3, <2>1, <2>3, LenProperties
  <2>. QED
    BY <2>3, <2>4 DEF IsList
<1>5. ASSUME NEW i \in 1 .. n
      PROVE  /\ list[2 * i - 1] = <<name>> /\ list[2 * i] = values[i]
             /\ 2 * i - 1 \in 1 .. 2 * n /\ 2 * i \in 2 .. 2 * n
  <2>1. 2 * i - 1 \in 1 .. 2 * n /\ 2 * i \in 2 .. 2 * n /\ 2 * i \in 1 .. 2 * n
    BY <1>1
  <2>2. (2 * i - 1) % 2 = 1 /\ (2 * i) % 2 = 0 /\ (2 * i) \div 2 = i
    OBVIOUS
  <2>. QED
    BY <1>3, <2>1, <2>2
<1>6. \A k \in 1 .. 2 * n : \E i \in 1 .. n : k = 2 * i - 1 \/ k = 2 * i
  <2>1. ASSUME NEW k \in 1 .. 2 * n PROVE \E i \in 1 .. n : k = 2 * i - 1 \/ k = 2 * i
    <3>1. (k + 1) \div 2 \in 1 .. n /\ (k = 2 * ((k + 1) \div 2) - 1 \/ k = 2 * ((k + 1) \div 2))
      BY <1>1
    <3>. QED
      BY <3>1
  <2>. QED
    BY <2>1
\* The option stands before each value, and a value before each other option.
<1>7. ASSUME NEW i \in 1 .. n
      PROVE  /\ 2 * i > 1 /\ list[2 * i - 1] = <<name>>
             /\ 2 * i - 1 > 1 => \E j \in 1 .. n : list[2 * i - 1 - 1] = values[j]
  <2>1. 2 * i > 1 /\ list[2 * i - 1] = <<name>>
    BY <1>1, <1>5
  <2>2. CASE i > 1
    <3>1. i - 1 \in 1 .. n /\ 2 * i - 1 - 1 = 2 * (i - 1)
      BY <1>1, <2>2
    <3>2. list[2 * i - 1 - 1] = values[i - 1]
      BY <1>5, <3>1
    <3>. QED
      BY <2>1, <3>1, <3>2
  <2>3. CASE i = 1
    BY <2>1, <2>3
  <2>. QED
    BY <1>1, <2>2, <2>3
<1>8. TakenBy(list, <<name>>) = Range(values)
  <2>1. ASSUME NEW k \in 2 .. 2 * n, list[k - 1] = <<name>> PROVE list[k] \in Range(values)
    <3>0. k \in 1 .. 2 * n /\ k > 1
      BY <1>1
    <3>1. PICK i \in 1 .. n : k = 2 * i - 1 \/ k = 2 * i
      BY <1>6, <3>0
    <3>2. k # 2 * i - 1
      BY <1>2, <1>7, <2>1, <3>0
    <3>. QED
      BY <1>1, <1>5, <3>1, <3>2
  <2>2. ASSUME NEW i \in 1 .. n PROVE values[i] \in TakenBy(list, <<name>>)
    BY <1>4, <1>5 DEF TakenBy
  <2>. QED
    BY <1>1, <1>4, <2>1, <2>2 DEF TakenBy
<1>9. ASSUME NEW other \in ValueOptions \ {<<name>>} PROVE TakenBy(list, other) = {}
  <2>1. ASSUME NEW k \in 2 .. 2 * n PROVE list[k - 1] # other
    <3>0. k \in 1 .. 2 * n /\ k > 1
      BY <1>1
    <3>1. PICK i \in 1 .. n : k = 2 * i - 1 \/ k = 2 * i
      BY <1>6, <3>0
    <3>. QED
      BY <1>2, <1>7, <3>0, <3>1
  <2>. QED
    BY <1>4, <2>1 DEF TakenBy
<1>10. Sources(list) = {} /\ FlagsGiven(list) = {}
  <2>1. ASSUME NEW k \in 1 .. 2 * n
        PROVE  /\ list[k] \notin Flags
               /\ list[k] \in ValueOptions \/ (k > 1 /\ list[k - 1] \in ValueOptions)
    <3>1. PICK i \in 1 .. n : k = 2 * i - 1 \/ k = 2 * i
      BY <1>6
    <3>2. CASE k = 2 * i - 1
      BY <1>5, <3>2, OptionsAssumption
    <3>3. CASE k = 2 * i
      BY <1>2, <1>5, <1>7, <3>3
    <3>. QED
      BY <3>1, <3>2, <3>3
  <2>. QED
    BY <1>4, <2>1 DEF Sources, FlagsGiven, IsOption, IsTaken, Options
<1>11. Closed(list)
  <2>1. n > 0 => list[2 * n] = values[n] /\ values[n] \notin ValueOptions
    BY <1>1, <1>2, <1>5
  <2>. QED
    BY <1>1, <1>4, <2>1 DEF Closed
<1>. QED
  BY <1>4, <1>8, <1>9, <1>10, <1>11 DEF list

-----------------------------------------------------------------------------
(* The command *)

\* get_restic_tags: the tags of a row, none of which is an option.
LEMMA TagsOfRow ==
  ASSUME NEW job
  PROVE  /\ IsPlain(GetResticTags(job))
         /\ Range(GetResticTags(job)) =
              {<<"backup:", job.id>>, <<"backup_name=", job.name>>}
                \cup {t \in {<<"origin=", job.origin_name>>} : job.origin_name # None}
                \cup {t \in {<<"account_id=", job.account_id>>} : job.account_id # None}
<1> DEFINE own     == <<<<"backup:", job.id>>, <<"backup_name=", job.name>>>>
           origin  == Present(job.origin_name, <<"origin=", job.origin_name>>)
           account == Present(job.account_id, <<"account_id=", job.account_id>>)
<1>1. IsPlain(own) /\ Range(own) = {<<"backup:", job.id>>, <<"backup_name=", job.name>>}
  BY OptionsAssumption DEF IsPlain, IsList, Range, Options
<1>2. ASSUME NEW x, NEW piece, NEW arg, arg = <<piece, x>>
      PROVE  /\ IsPlain(Present(x, arg))
             /\ Range(Present(x, arg)) = {t \in {arg} : x # None}
  <2>1. arg \notin Options
    BY <1>2, OptionsAssumption DEF Options
  <2>2. CASE x = None
    BY <2>2 DEF Present, IsPlain, IsList, Range
  <2>3. CASE x # None
    BY <2>1, <2>3 DEF Present, IsPlain, IsList, Range
  <2>. QED
    BY <2>2, <2>3
<1>3. /\ IsPlain(origin)
      /\ Range(origin) = {t \in {<<"origin=", job.origin_name>>} : job.origin_name # None}
  BY <1>2
<1>4. /\ IsPlain(account)
      /\ Range(account) = {t \in {<<"account_id=", job.account_id>>} : job.account_id # None}
  BY <1>2
<1> HIDE DEF own, origin, account
<1>5. IsList(own \o origin) /\ Range(own \o origin) = Range(own) \cup Range(origin)
  BY <1>1, <1>3, Concat DEF IsPlain, IsList
<1> DEFINE two == own \o origin
<1>6. GetResticTags(job) = two \o account
  BY DEF GetResticTags, own, origin, account
<1>7. IsList(two) /\ Range(two) = Range(own) \cup Range(origin)
  BY <1>5
<1> HIDE DEF two
<1>8. /\ IsList(two \o account)
      /\ Range(two \o account) = Range(own) \cup Range(origin) \cup Range(account)
  <2>1. IsList(account)
    BY <1>4 DEF IsPlain, IsList
  <2>. QED
    BY <1>7, <2>1, Concat
<1>. QED
  BY <1>1, <1>3, <1>4, <1>6, <1>8 DEF IsPlain, IsList

\* Restic reads the command as it is meant, whichever columns are NULL: the row's
\* paths, patterns and tags, and the words of restic_args as they would be read
\* by themselves, whatever options restic has and whatever the user passes.
THEOREM CommandIsRead ==
  ASSUME NEW job, PlainRow(job)
  PROVE  ReadAsMeant(job)
<1> DEFINE X       == <<"--exclude">>
           T       == <<"--tag">>
           head    == <<<<"--json">>>>
           paths   == job.source_paths
           exclude == EachWith("--exclude", Listed(job.exclude_patterns))
           own     == EachWith("--tag", GetResticTags(job))
           tags    == EachWith("--tag", Listed(job.tags))
           extra   == Strings(job.restic_args)
           patterns == Range(Listed(job.exclude_patterns))
           given    == Range(GetResticTags(job))
           added    == Range(Listed(job.tags))
           a1 == head \o paths
           a2 == a1 \o exclude
           a3 == a2 \o own
           a4 == a3 \o tags
           a5 == a4 \o extra
           Read(a, f, s, x, t) ==
             /\ IsList(a) /\ Closed(a)
             /\ FlagsGiven(a) = f /\ Sources(a) = s /\ TakenBy(a, X) = x /\ TakenBy(a, T) = t
             /\ \A option \in ValueOptions \ {X, T} : TakenBy(a, option) = {}
<1> USE OptionsAssumption
<1>0. BuildArgs(job) = a5 /\ X \in ValueOptions /\ T \in ValueOptions /\ X # T
  BY DEF BuildArgs
<1>1. Read(head, {<<"--json">>}, {}, {}, {})
  BY DEF IsList, Range, Closed, Sources, FlagsGiven, TakenBy, IsTaken, IsOption, Options
<1>2. ASSUME NEW a, NEW f, NEW s, NEW x, NEW t, Read(a, f, s, x, t),
             NEW b, NEW g, NEW u, NEW y, NEW v, Read(b, g, u, y, v)
      PROVE  Read(a \o b, f \cup g, s \cup u, x \cup y, t \cup v)
  BY <1>0, <1>2, Concat, ReadConcat
<1>p. Read(paths, {}, Range(paths), {}, {})
  BY <1>0, ReadPlain DEF PlainRow
<1>x. Read(exclude, {}, {}, patterns, {})
  BY <1>0, ReadEachWith DEF PlainRow
<1>o. Read(own, {}, {}, {}, given)
  BY <1>0, ReadEachWith, TagsOfRow
<1>t. Read(tags, {}, {}, {}, added)
  BY <1>0, ReadEachWith DEF PlainRow
<1> HIDE DEF Read, head, paths, exclude, own, tags, extra, patterns, given, added, X, T
<1>3. Read(a1, {<<"--json">>}, Range(paths), {}, {})
  <2>1. Read(a1, {<<"--json">>} \cup {}, {} \cup Range(paths), {} \cup {}, {} \cup {})
    BY <1>1, <1>2, <1>p
  <2>. QED
    BY <2>1
<1> HIDE DEF a1
<1>4. Read(a2, {<<"--json">>}, Range(paths), patterns, {})
  <2>1. Read(a2, {<<"--json">>} \cup {}, Range(paths) \cup {}, {} \cup patterns, {} \cup {})
    BY <1>2, <1>3, <1>x
  <2>. QED
    BY <2>1
<1> HIDE DEF a2
<1>5. Read(a3, {<<"--json">>}, Range(paths), patterns, given)
  <2>1. Read(a3, {<<"--json">>} \cup {}, Range(paths) \cup {}, patterns \cup {}, {} \cup given)
    BY <1>2, <1>4, <1>o
  <2>. QED
    BY <2>1
<1> HIDE DEF a3
<1>6. Read(a4, {<<"--json">>}, Range(paths), patterns, given \cup added)
  <2>1. Read(a4, {<<"--json">>} \cup {}, Range(paths) \cup {}, patterns \cup {}, given \cup added)
    BY <1>2, <1>5, <1>t
  <2>. QED
    BY <2>1
<1> HIDE DEF a4
\* What follows may leave an option open: nothing comes after it.
<1>7. /\ Sources(a5) = Sources(a4) \cup Sources(extra)
      /\ FlagsGiven(a5) = FlagsGiven(a4) \cup FlagsGiven(extra)
      /\ \A option \in ValueOptions :
           TakenBy(a5, option) = TakenBy(a4, option) \cup TakenBy(extra, option)
  <2>1. IsList(a4) /\ Closed(a4)
    BY <1>6 DEF Read
  <2>2. IsList(extra)
    BY DEF PlainRow, extra
  <2>. QED
    BY <2>1, <2>2, ReadConcat
<1>8. /\ Sources(a4) = Range(paths) /\ FlagsGiven(a4) = {<<"--json">>}
      /\ \A option \in ValueOptions : TakenBy(a4, option) = ValuesOf(job, option)
  <2>1. TagsOf(job) = given \cup added
    BY TagsOfRow DEF TagsOf, given, added
  <2>2. /\ TakenBy(a4, X) = ValuesOf(job, X) /\ TakenBy(a4, T) = ValuesOf(job, T)
    BY <1>6, <2>1 DEF Read, ValuesOf, X, T, patterns
  <2>3. \A option \in ValueOptions \ {X, T} : TakenBy(a4, option) = ValuesOf(job, option)
    BY <1>6 DEF Read, ValuesOf, X, T
  <2>. QED
    BY <1>6, <2>2, <2>3 DEF Read
<1>. QED
  BY <1>0, <1>7, <1>8 DEF ReadAsMeant, paths, extra
=============================================================================
