------------------------- MODULE PackageTestsProofs -------------------------
(***************************************************************************)
(* Proofs about a source package, for any control file, field Depends,     *)
(* source package, testbed and options: what is declared is run, reported  *)
(* or excluded; what runs may run there; and its dependencies are met, by  *)
(* its own packages where it names only these.                             *)
(*                                                                         *)
(* The steps of TestDesc and of Depends change disjoint variables, so the  *)
(* invariant is one for each: what has become of the stanzas that have     *)
(* been read (TestsInv), and of the groups that have (FieldInv).           *)
(***************************************************************************)
EXTENDS PackageTests, FiniteSetTheorems, WellFoundedInduction, TLAPS

-----------------------------------------------------------------------------
(* The control file.                                                       *)

\* A place of stanza i that is no more to be looked at.
Looked(i, j) == ~(i = k - 1 /\ j \in todo)

\* What is read is valid, and only a stanza with Tests has names left.
ReadWell ==
    /\ \A i \in 1..k - 1 : ~Invalid(control[i])
    /\ todo # {} => control[k - 1].field = "tests"

\* Unlabelled commands are counted.
Counted == counter = Cardinality({i \in 1..k - 1 : Unlabelled(i)})

\* What has become of a test that has been looked at.
SettledIn(i, t) ==
    \/ t \in tests \/ t.name \in reports \/ ~Selected(t.name)
    \/ control[i].field = "command" /\ options.only # {}
    \/ Chosen /\ ~Wanted(t)

Settled ==
    \A i \in 1..k - 1 : \A t \in DeclaredBy(i) : Looked(i, t.place) => SettledIn(i, t)

\* Only declared tests that are supported are taken.
Taken ==
    \A t \in tests :
        /\ t.stanza \in 1..k - 1 /\ t \in DeclaredBy(t.stanza)
        /\ Supported(t.name, control[t.stanza])
        /\ Chosen => Wanted(t)

Reported ==
    /\ \A n \in reports : Selected(n)
    /\ skipped <=> reports # {}

\* How far the runner has got, and its exit code.
Position ==
    /\ at \in {"filter"} \/ Chosen => k = Len(control) + 1 /\ todo = {}
    /\ at = "filter" \/ at = "run" => errorcode = IF skipped THEN 2 ELSE 0

TestsInv == TypeOK /\ ReadWell /\ Counted /\ Settled /\ Taken /\ Reported /\ Position

\* Stanzas and their numbers.
LEMMA ControlTypes ==
    ASSUME TypeOK
    PROVE  /\ control \in Seq(Stanza) /\ Len(control) \in Nat
           /\ DOMAIN control = 1..Len(control)
           /\ \A i \in 1..Len(control) : control[i] \in Stanza
           /\ k \in Nat /\ counter \in Nat
  <1>1. control \in Seq(Stanza)
    BY ControlsAssumption DEF TypeOK
  <1>2. Len(control) \in Nat /\ DOMAIN control = 1..Len(control)
    BY <1>1
  <1>3. \A i \in 1..Len(control) : control[i] \in Stanza
    BY <1>1
  <1>4. QED
    BY <1>1, <1>2, <1>3 DEF TypeOK

\* What one more stanza adds to the number of unlabelled commands.
LEMMA CountOneMore ==
    ASSUME NEW n \in Nat \ {0}
    PROVE  /\ Cardinality({i \in 1..n : Unlabelled(i)})
                = Cardinality({i \in 1..n - 1 : Unlabelled(i)})
                    + (IF Unlabelled(n) THEN 1 ELSE 0)
           /\ Cardinality({i \in 1..n - 1 : Unlabelled(i)}) \in Nat
  <1> DEFINE Before == {i \in 1..n - 1 : Unlabelled(i)}
  <1>1. IsFiniteSet(1..n - 1)
    BY FS_Interval
  <1>2. IsFiniteSet(Before)
    BY <1>1, FS_Subset
  <1>3. Cardinality(Before) \in Nat
    BY <1>2, FS_CardinalityType
  <1>4. CASE Unlabelled(n)
    <2>1. {i \in 1..n : Unlabelled(i)} = Before \cup {n}
      BY <1>4
    <2>2. n \notin Before
      OBVIOUS
    <2>3. QED
      BY <2>1, <2>2, <1>2, <1>3, <1>4, FS_AddElement
  <1>5. CASE ~Unlabelled(n)
    <2>1. {i \in 1..n : Unlabelled(i)} = Before
      BY <1>5
    <2>2. QED
      BY <2>1, <1>3, <1>5
  <1>6. QED
    BY <1>4, <1>5

LEMMA TestsInit ==
    ASSUME Init PROVE TestsInv
  <1>1. TypeOK
    <2>1. control \in Seq(Stanza) /\ Len(control) \in Nat
      BY ControlsAssumption DEF Init
    <2>2. k \in 1..Len(control) + 1 /\ counter \in 0..k - 1
      BY <2>1 DEF Init
    <2>3. at \in {"parse", "filter", "run", "none", "invalid"}
      BY DEF Init
    <2>4. QED
      BY <2>2, <2>3 DEF Init, TypeOK
  <1>2. {i \in 1..k - 1 : Unlabelled(i)} = {}
    BY DEF Init
  <1>3. Counted
    BY <1>2, FS_EmptySet DEF Init, Counted
  <1>4. ReadWell /\ Settled
    BY DEF Init, ReadWell, Settled
  <1>5. Taken /\ Reported /\ Position
    BY DEF Init, Taken, Reported, Position, Chosen
  <1>6. QED
    BY <1>1, <1>3, <1>4, <1>5 DEF TestsInv

\* What depends on the control file, the testbed and the options alone stays.
LEMMA Fixed ==
    ASSUME UNCHANGED <<control, testbed, options>>
    PROVE  /\ Names' = Names
           /\ \A i : Unlabelled(i)' <=> Unlabelled(i)
           /\ \A i : DeclaredBy(i)' = DeclaredBy(i)
           /\ \A n : Selected(n)' <=> Selected(n)
           /\ \A t : Wanted(t)' <=> Wanted(t)
           /\ \A n, s : Supported(n, s)' <=> Supported(n, s)
  <1>1. Names' = Names
    BY DEF Names
  <1>2. \A i : Unlabelled(i)' <=> Unlabelled(i)
    BY DEF Unlabelled
  <1>3. \A i : NameByPlace(i)' = NameByPlace(i)
    BY DEF NameByPlace, Unlabelled
  <1>4. \A i : DeclaredBy(i)' = DeclaredBy(i)
    BY <1>3 DEF DeclaredBy
  <1>5. \A n : Selected(n)' <=> Selected(n)
    BY DEF Selected
  <1>6. \A t : Wanted(t)' <=> Wanted(t)
    BY <1>5 DEF Wanted
  <1>7. \A n, s : Supported(n, s)' <=> Supported(n, s)
    <2>1. \A a : Matches(a)' <=> Matches(a)
      BY DEF Matches
    <2>2. \A l : ArchSupported(l)' <=> ArchSupported(l)
      BY <2>1 DEF ArchSupported
    <2>3. \A r : Compatible(r)' <=> Compatible(r)
      BY DEF Compatible
    <2>4. QED
      BY <2>2, <2>3 DEF Supported
  <1>8. QED
    BY <1>1, <1>2, <1>4, <1>5, <1>6, <1>7

\* The tests of a stanza.
LEMMA DeclaredAre ==
    ASSUME NEW i
    PROVE  /\ \A t \in DeclaredBy(i) : t.stanza = i
           /\ control[i].field = "tests" =>
                /\ \A t \in DeclaredBy(i) :
                      t.place \in DOMAIN control[i].names /\ t.name = control[i].names[t.place]
                /\ \A j \in DOMAIN control[i].names :
                      [name |-> control[i].names[j], stanza |-> i, place |-> j] \in DeclaredBy(i)
           /\ control[i].field # "tests" =>
                DeclaredBy(i) = {[name |-> NameByPlace(i), stanza |-> i, place |-> 1]}
  BY DEF DeclaredBy

LEMMA ReadTestsKeeps ==
    ASSUME TestsInv, ReadTests PROVE TestsInv'
  <1> USE ControlTypes DEF TestsInv
  <1>1. /\ k \in 1..Len(control) /\ k' = k + 1 /\ at' = at /\ at = "parse"
        /\ todo = {} /\ todo' = DOMAIN control[k].names
        /\ control[k].field = "tests" /\ ~Invalid(control[k])
    BY DEF ReadTests, TypeOK
  <1>a. UNCHANGED <<control, testbed, options, tests, reports, skipped, errorcode, counter>>
    BY DEF ReadTests
  <1>2. TypeOK'
    BY <1>1, <1>a, Fixed DEF TypeOK
  <1>3. ReadWell'
    BY <1>1 DEF ReadTests, ReadWell, Invalid
  <1>4. Counted'
    BY <1>1, CountOneMore DEF ReadTests, Counted, Unlabelled
  <1>5. Settled'
    <2> SUFFICES ASSUME NEW i \in 1..k, NEW t \in DeclaredBy(i), ~(i = k /\ t.place \in todo')
                 PROVE  SettledIn(i, t)'
      BY <1>1, <1>a, Fixed DEF Settled, Looked
    <2>1. i # k
      BY <1>1, DeclaredAre
    <2>2. SettledIn(i, t)
      BY <1>1, <2>1 DEF Settled, Looked
    <2>3. QED
      BY <2>2, <1>1, <1>a, Fixed DEF SettledIn, Chosen
  <1>6. Taken'
    BY <1>1, <1>a, Fixed DEF Taken, Chosen
  <1>7. Reported' /\ Position'
    BY <1>1 DEF ReadTests, Reported, Position, Chosen, Selected
  <1>8. QED
    BY <1>2, <1>3, <1>4, <1>5, <1>6, <1>7


\* What is a name.
LEMMA NamesAre ==
    /\ \A c \in Range(control) : Range(c.names) \subseteq Names /\ Range(c.labels) \subseteq Names
    /\ \A i \in 1..Len(control) : CommandName(i) \in Names
  <1>1. ASSUME NEW c \in Range(control), NEW n \in Range(c.names) \cup Range(c.labels)
        PROVE  n \in Names
    <2>1. Range(c.names) \cup Range(c.labels)
            \in {Range(s.names) \cup Range(s.labels) : s \in Range(control)}
      OBVIOUS
    <2>2. n \in UNION {Range(s.names) \cup Range(s.labels) : s \in Range(control)}
      BY <2>1, <1>1
    <2>3. QED
      BY <2>2 DEF Names
  <1>2. QED
    BY <1>1 DEF Names

\* A test taken, and one skipped.
LEMMA TakenOne ==
    ASSUME TypeOK, Reported, NEW i, NEW j, NEW n, Take(n, i, j)
    PROVE  /\ tests' = tests \cup {[name |-> n, stanza |-> i, place |-> j]}
           /\ reports' = reports /\ skipped' = skipped
           /\ skipped' \in BOOLEAN /\ (skipped' <=> reports' # {})
           /\ \A m \in reports' : Selected(m)
  BY DEF TypeOK, Reported, Take

LEMMA SkippedOne ==
    ASSUME TypeOK, Reported, NEW n, NEW reported \in BOOLEAN,
           reported => Selected(n), Skip(n, reported)
    PROVE  /\ tests' = tests /\ reports \subseteq reports' /\ reports' \subseteq reports \cup {n}
           /\ reported => n \in reports'
           /\ skipped' \in BOOLEAN /\ (skipped' <=> reports' # {})
           /\ \A m \in reports' : Selected(m)
  BY DEF TypeOK, Reported, Skip

LEMMA ReadNameKeeps ==
    ASSUME TestsInv, ReadName PROVE TestsInv'
  <1> USE ControlTypes DEF TestsInv
  <1> DEFINE s == control[k - 1]
  <1>1. PICK j \in todo :
            /\ IsNextName(j)
            /\ IF Supported(s.names[j], s) THEN Take(s.names[j], k - 1, j)
               ELSE Skip(s.names[j], Selected(s.names[j]))
    BY DEF ReadName
  <1> DEFINE n == s.names[j]
             t0 == [name |-> n, stanza |-> k - 1, place |-> j]
  <1>2. UNCHANGED <<control, testbed, options, k, counter, errorcode, at>>
        /\ at = "parse" /\ todo' = todo \ {j}
    BY <1>1 DEF ReadName, IsNextName
  <1>3. /\ k # 1 /\ k - 1 \in 1..Len(control) /\ j \in DOMAIN s.names
        /\ s.field = "tests" /\ s \in Stanza
    <2>1. todo \subseteq (IF k = 1 THEN {} ELSE DOMAIN s.names) /\ k \in 1..Len(control) + 1
      BY DEF TypeOK
    <2>2. k # 1 /\ j \in DOMAIN s.names
      BY <2>1
    <2>3. k - 1 \in 1..Len(control)
      BY <2>1, <2>2
    <2>4. s.field = "tests"
      BY DEF ReadWell
    <2>5. QED
      BY <2>2, <2>3, <2>4
  <1>4. n \in Range(s.names) /\ s \in Range(control) /\ j \in Nat
    BY <1>3 DEF Range, Stanza
  <1>5. n \in Names
    BY <1>4, NamesAre
  <1>6. Selected(n) \in BOOLEAN
    BY DEF Selected
  <1>7. /\ tests \subseteq tests' /\ reports \subseteq reports' /\ reports' \subseteq Names
        /\ skipped' \in BOOLEAN /\ (skipped' <=> reports' # {})
        /\ \A m \in reports' : Selected(m)
        /\ \A t \in tests' : t \in tests \/ (Supported(n, s) /\ t = t0)
        /\ t0 \in tests' \/ n \in reports' \/ ~Selected(n)
    <2>1. CASE Supported(n, s)
      <3>1. Take(n, k - 1, j)
        BY <1>1, <2>1
      <3>2. QED
        BY <3>1, <2>1, TakenOne DEF TypeOK
    <2>2. CASE ~Supported(n, s)
      <3>1. Skip(n, Selected(n))
        BY <1>1, <2>2
      <3>2. /\ tests' = tests /\ reports \subseteq reports'
            /\ reports' \subseteq reports \cup {n} /\ (Selected(n) => n \in reports')
            /\ skipped' \in BOOLEAN /\ (skipped' <=> reports' # {})
            /\ \A m \in reports' : Selected(m)
        <4> HIDE DEF n, s, t0
        <4> QED
          BY <3>1, <1>6, SkippedOne
      <3>3. reports \subseteq Names
        BY DEF TypeOK
      <3>4. QED
        <4> HIDE DEF n, s, t0
        <4> QED
          BY <3>2, <3>3, <1>5
    <2>3. QED
      BY <2>1, <2>2
  <1>8. TypeOK'
    <2>1. t0 \in [name : Names, stanza : 1..k - 1, place : Nat]
      BY <1>3, <1>4, <1>5
    <2>2. tests' \subseteq [name : Names, stanza : 1..k - 1, place : Nat]
      BY <2>1, <1>7 DEF TypeOK
    <2>3. QED
      BY <1>2, <1>7, <2>2, Fixed DEF TypeOK
  <1>9. ReadWell'
    BY <1>2, <1>3 DEF ReadWell, Invalid
  <1>10. Counted'
    BY <1>2, Fixed DEF Counted
  <1>11. Settled'
    <2> SUFFICES ASSUME NEW i \in 1..k - 1, NEW t \in DeclaredBy(i),
                        ~(i = k - 1 /\ t.place \in todo')
                 PROVE  SettledIn(i, t)'
      BY <1>2, Fixed DEF Settled, Looked
    <2>1. CASE i = k - 1 /\ t.place = j
      <3>1. t.name = n /\ t \in DeclaredBy(k - 1)
        BY <2>1, <1>3, DeclaredAre
      <3>2. t = t0
        BY <2>1, <3>1, <1>3 DEF DeclaredBy
      <3>3. QED
        BY <3>1, <3>2, <1>2, <1>7, Fixed DEF SettledIn
    <2>2. CASE ~(i = k - 1 /\ t.place = j)
      <3>1. SettledIn(i, t)
        BY <2>2, <1>2 DEF Settled, Looked
      <3>2. QED
        BY <3>1, <1>2, <1>7, Fixed DEF SettledIn, Chosen
    <2>3. QED
      BY <2>1, <2>2
  <1>12. Taken'
    <2> SUFFICES ASSUME NEW t \in tests'
                 PROVE  /\ t.stanza \in 1..k - 1 /\ t \in DeclaredBy(t.stanza)
                        /\ Supported(t.name, control[t.stanza])
      BY <1>2, Fixed DEF Taken, Chosen
    <2>1. CASE t \in tests
      BY <2>1 DEF Taken
    <2>2. CASE Supported(n, s) /\ t = t0
      BY <2>2, <1>3, DeclaredAre
    <2>3. QED
      BY <2>1, <2>2, <1>7
  <1>13. Reported' /\ Position'
    BY <1>2, <1>7, Fixed DEF Reported, Position, Chosen
  <1>14. QED
    BY <1>8, <1>9, <1>10, <1>11, <1>12, <1>13

LEMMA ReadCommandKeeps ==
    ASSUME TestsInv, ReadCommand PROVE TestsInv'
  <1> USE ControlTypes DEF TestsInv
  <1> DEFINE s == control[k]
             n == IF s.labels = <<>> THEN CommandName(counter + 1) ELSE s.labels[1]
             t0 == [name |-> n, stanza |-> k, place |-> 1]
  <1>1. /\ at = "parse" /\ todo = {} /\ k \in 1..Len(control) /\ s.field = "command"
        /\ ~Invalid(s) /\ k' = k + 1
        /\ counter' = IF s.labels = <<>> THEN counter + 1 ELSE counter
        /\ IF Supported(n, s) THEN Take(n, k, 1) ELSE Skip(n, options.only = {})
        /\ UNCHANGED <<control, testbed, options, todo, errorcode, at>>
    BY DEF ReadCommand, TypeOK
  <1>2. s \in Stanza /\ s \in Range(control)
    BY <1>1 DEF Range
  <1>3. n = NameByPlace(k)
    BY <1>1, CountOneMore DEF NameByPlace, Counted, Unlabelled
  <1>4. n \in Names
    <2>1. CASE s.labels = <<>>
      <3>1. counter + 1 \in 1..Len(control)
        BY <1>1 DEF TypeOK
      <3>2. n = CommandName(counter + 1)
        BY <2>1
      <3>3. QED
        BY <3>1, <3>2, NamesAre
    <2>2. CASE s.labels # <<>>
      <3>1. s.labels \in Seq(Name)
        BY <1>2 DEF Stanza
      <3>2. 1 \in DOMAIN s.labels
        BY <3>1, <2>2
      <3>3. n \in Range(s.labels)
        BY <3>2, <2>2 DEF Range
      <3>4. QED
        BY <3>3, <1>2, NamesAre
    <2>3. QED
      BY <2>1, <2>2
  <1>5. /\ tests \subseteq tests' /\ reports \subseteq reports' /\ reports' \subseteq Names
        /\ skipped' \in BOOLEAN /\ (skipped' <=> reports' # {})
        /\ \A m \in reports' : Selected(m)
        /\ \A t \in tests' : t \in tests \/ (Supported(n, s) /\ t = t0)
        /\ t0 \in tests' \/ n \in reports' \/ options.only # {}
    <2>1. CASE Supported(n, s)
      <3>1. Take(n, k, 1)
        BY <1>1, <2>1
      <3>2. QED
        BY <3>1, <2>1, TakenOne DEF TypeOK
    <2>2. CASE ~Supported(n, s)
      <3>1. Skip(n, options.only = {})
        BY <1>1, <2>2
      <3>2. (options.only = {}) \in BOOLEAN /\ (options.only = {} => Selected(n))
        BY DEF Selected
      <3>3. /\ tests' = tests /\ reports \subseteq reports'
            /\ reports' \subseteq reports \cup {n} /\ (options.only = {} => n \in reports')
            /\ skipped' \in BOOLEAN /\ (skipped' <=> reports' # {})
            /\ \A m \in reports' : Selected(m)
        <4> HIDE DEF n, s, t0
        <4> QED
          BY <3>1, <3>2, SkippedOne
      <3>4. reports \subseteq Names
        BY DEF TypeOK
      <3>5. QED
        <4> HIDE DEF n, s, t0
        <4> QED
          BY <3>3, <3>4, <1>4
    <2>3. QED
      BY <2>1, <2>2
  <1>6. DeclaredBy(k) = {t0}
    BY <1>1, <1>3, DeclaredAre
  <1>7. TypeOK'
    <2>1. tests' \subseteq [name : Names, stanza : 1..k, place : Nat]
      <3>1. t0 \in [name : Names, stanza : 1..k, place : Nat]
        BY <1>1, <1>4
      <3>2. \A t \in tests : t \in [name : Names, stanza : 1..k, place : Nat]
        BY DEF TypeOK
      <3>3. QED
        BY <3>1, <3>2, <1>5
    <2>2. k' \in 1..Len(control) + 1 /\ counter' \in 0..k' - 1 /\ k' - 1 = k
      BY <1>1 DEF TypeOK
    <2>3. QED
      BY <1>1, <1>5, <2>1, <2>2, Fixed DEF TypeOK
  <1>8. ReadWell'
    BY <1>1 DEF ReadWell, Invalid
  <1>9. Counted'
    <2>1. Unlabelled(k) <=> s.labels = <<>>
      BY <1>1 DEF Unlabelled
    <2>2. {i \in 1..k' - 1 : Unlabelled(i)'} = {i \in 1..k : Unlabelled(i)}
      BY <1>1, Fixed
    <2>3. QED
      BY <1>1, <2>1, <2>2, CountOneMore DEF Counted
  <1>10. Settled'
    <2> SUFFICES ASSUME NEW i \in 1..k, NEW t \in DeclaredBy(i)
                 PROVE  SettledIn(i, t)'
      BY <1>1, Fixed DEF Settled, Looked
    <2>1. CASE i = k
      BY <2>1, <1>1, <1>5, <1>6, Fixed DEF SettledIn
    <2>2. CASE i # k
      <3>1. SettledIn(i, t)
        BY <2>2, <1>1 DEF Settled, Looked
      <3>2. QED
        BY <3>1, <1>1, <1>5, Fixed DEF SettledIn, Chosen
    <2>3. QED
      BY <2>1, <2>2
  <1>11. Taken'
    <2> SUFFICES ASSUME NEW t \in tests'
                 PROVE  /\ t.stanza \in 1..k /\ t \in DeclaredBy(t.stanza)
                        /\ Supported(t.name, control[t.stanza])
      BY <1>1, Fixed DEF Taken, Chosen
    <2>1. CASE t \in tests
      BY <2>1 DEF Taken
    <2>2. CASE Supported(n, s) /\ t = t0
      BY <2>2, <1>1, <1>6
    <2>3. QED
      BY <2>1, <2>2, <1>5
  <1>12. Reported' /\ Position'
    BY <1>1, <1>5, Fixed DEF Reported, Position, Chosen
  <1>13. QED
    BY <1>7, <1>8, <1>9, <1>10, <1>11, <1>12

\* The steps that only say how the reading has ended.
LEMMA EndOfReadingKeeps ==
    ASSUME TestsInv, ReadInvalid \/ ParseDone PROVE TestsInv'
  <1> USE ControlTypes DEF TestsInv
  <1>1. UNCHANGED <<control, testbed, options, k, todo, counter, tests, reports, skipped>>
        /\ at = "parse" /\ todo = {} /\ at' \in {"filter", "invalid"}
    BY DEF ReadInvalid, ParseDone
  <1>2. errorcode' \in {0, 2, 12}
    BY DEF ReadInvalid, ParseDone
  <1>3. TypeOK' /\ ReadWell'
    BY <1>1, <1>2, Fixed DEF TypeOK, ReadWell, Invalid
  <1>4. Counted'
    BY <1>1, Fixed DEF Counted
  <1>5. Settled'
    BY <1>1, Fixed DEF Settled, SettledIn, Looked, Chosen
  <1>6. Taken' /\ Reported'
    BY <1>1, Fixed DEF Taken, Reported, Chosen
  <1>7. Position'
    BY <1>1 DEF ReadInvalid, ParseDone, Position, Chosen, TypeOK
  <1>8. QED
    BY <1>3, <1>4, <1>5, <1>6, <1>7

LEMMA FilterKeeps ==
    ASSUME TestsInv, Filter PROVE TestsInv'
  <1> USE ControlTypes DEF TestsInv
  <1>1. /\ UNCHANGED <<control, testbed, options, k, todo, counter, reports, skipped>>
        /\ at = "filter" /\ at' \in {"run", "none"} /\ tests' = {t \in tests : Wanted(t)}
        /\ at' = "run" => errorcode' = errorcode
        /\ errorcode' \in {8, errorcode}
    BY DEF Filter, Wanted
  <1>2. TypeOK' /\ ReadWell'
    BY <1>1, Fixed DEF TypeOK, ReadWell, Invalid
  <1>3. Counted'
    BY <1>1, Fixed DEF Counted
  <1>4. Settled'
    BY <1>1, Fixed DEF Settled, SettledIn, Looked, Chosen
  <1>5. Taken' /\ Reported'
    BY <1>1, Fixed DEF Taken, Reported, Chosen
  <1>6. Position'
    BY <1>1 DEF Position, Chosen
  <1>7. QED
    BY <1>2, <1>3, <1>4, <1>5, <1>6

\* A step that changes nothing of all this.
LEMMA TestsStutter ==
    ASSUME TestsInv, UNCHANGED vars PROVE TestsInv'
  <1> USE DEF TestsInv, vars
  <1>1. TypeOK' /\ ReadWell'
    BY Fixed DEF TypeOK, ReadWell, Invalid
  <1>2. Counted'
    BY Fixed DEF Counted
  <1>3. Settled'
    BY Fixed DEF Settled, SettledIn, Looked, Chosen
  <1>4. Taken' /\ Reported' /\ Position'
    BY Fixed DEF Taken, Reported, Position, Chosen
  <1>5. QED
    BY <1>1, <1>2, <1>3, <1>4

\* What becomes of the control file, in one.
LEMMA TestsNext ==
    ASSUME TestsInv, Next \/ UNCHANGED vars PROVE TestsInv'
  <1>1. CASE ReadTests
    BY <1>1, ReadTestsKeeps
  <1>2. CASE ReadName
    BY <1>2, ReadNameKeeps
  <1>3. CASE ReadCommand
    BY <1>3, ReadCommandKeeps
  <1>4. CASE ReadInvalid \/ ParseDone
    BY <1>4, EndOfReadingKeeps
  <1>5. CASE Filter
    BY <1>5, FilterKeeps
  <1>6. CASE UNCHANGED vars
    BY <1>6, TestsStutter
  <1>7. QED
    BY <1>1, <1>2, <1>3, <1>4, <1>5, <1>6 DEF Next, Done

\* Every declared test is accounted for.
LEMMA TestsAccounted ==
    ASSUME TestsInv PROVE NothingLost /\ NothingElse
  <1> USE ControlTypes DEF TestsInv
  <1>1. NothingLost
    <2> SUFFICES ASSUME Chosen, NEW t \in Declared, Wanted(t)
                 PROVE  \/ t \in tests \/ t.name \in reports
                        \/ control[t.stanza].field = "command" /\ options.only # {}
      BY DEF NothingLost
    <2>1. PICK i \in 1..Len(control) : t \in DeclaredBy(i)
      BY DEF Declared
    <2>2. i \in 1..k - 1 /\ Looked(i, t.place)
      <3>1. k = Len(control) + 1 /\ todo = {}
        BY DEF Position
      <3>2. QED
        BY <2>1, <3>1 DEF Looked
    <2>3. SettledIn(i, t) /\ t.stanza = i
      BY <2>1, <2>2, DeclaredAre DEF Settled
    <2>4. QED
      BY <2>3 DEF SettledIn, Wanted
  <1>2. NothingElse
    BY DEF NothingElse, Taken, Reported, Declared, TypeOK
  <1>3. QED
    BY <1>1, <1>2

LEMMA NumbersAndExit ==
    ASSUME TestsInv PROVE NumbersStable /\ ExitTells
  <1> USE ControlTypes DEF TestsInv
  <1>1. NumbersStable
    BY DeclaredAre DEF NumbersStable, Taken
  <1>2. ExitTells
    BY DEF ExitTells, ReadWell, Position, Reported, Chosen
  <1>3. QED
    BY <1>1, <1>2

\* What _check_architecture() accepts is what a list allows.
LEMMA ArchRight ==
    ASSUME NEW list \in Seq([neg : BOOLEAN, arch : STRING]), ArchSupported(list)
    PROVE  ArchAllowed(list)
  <1> DEFINE names == {a \in Range(list) : ~a.neg}
             barred == {list[i].arch : i \in {j \in DOMAIN list : list[j].neg}}
             listed == {list[i].arch : i \in {j \in DOMAIN list : ~list[j].neg}}
  <1>1. /\ "all" \notin listed
        /\ \/ list = <<>> \/ list = <<[neg |-> FALSE, arch |-> "any"]>>
           \/ /\ \A a \in barred : ~Matches(a)
              /\ listed # {} => barred = {} /\ \E a \in listed : Matches(a)
    BY DEF ArchSupported
  <1>2. \A a \in Range(list) : IF a.neg THEN a.arch \in barred ELSE a.arch \in listed
    BY DEF Range
  <1>3. \A x \in listed : \E a \in names : a.arch = x
    BY DEF Range
  <1>4. CASE list = <<>>
    BY <1>4 DEF ArchAllowed, Range
  <1>5. CASE list = <<[neg |-> FALSE, arch |-> "any"]>>
    <2> DEFINE e == [neg |-> FALSE, arch |-> "any"]
    <2>1. list = <<e>> /\ e.neg = FALSE /\ e.arch = "any"
      BY <1>5
    <2> HIDE DEF e
    <2>2. DOMAIN list = {1} /\ list[1] = e
      BY <2>1
    <2>3. Range(list) = {e}
      BY <2>2 DEF Range
    <2>4. names = {e}
      BY <2>1, <2>3
    <2>5. QED
      BY <2>1, <2>3, <2>4 DEF ArchAllowed
  <1>6. CASE /\ \A a \in barred : ~Matches(a)
             /\ listed # {} => barred = {} /\ \E a \in listed : Matches(a)
    <2>1. CASE listed = {}
      <3>1. names = {}
        BY <2>1, <1>2
      <3>2. \A a \in Range(list) : ~Matches(a.arch)
        BY <3>1, <1>2, <1>6
      <3>3. QED
        BY <3>1, <3>2 DEF ArchAllowed, Matches
    <2>2. CASE listed # {}
      <3>1. names = Range(list)
        BY <2>2, <1>2, <1>6
      <3>2. \E a \in names : Matches(a.arch)
        BY <2>2, <1>3, <1>6
      <3>3. \A a \in names : a.arch # "all"
        BY <1>1, <1>2
      <3>4. QED
        BY <3>1, <3>2, <3>3 DEF ArchAllowed, Matches
    <2>3. QED
      BY <2>1, <2>2
  <1>7. QED
    BY <1>1, <1>4, <1>5, <1>6

LEMMA TakenMayRun ==
    ASSUME TestsInv PROVE RunsWhereItMay
  <1> USE ControlTypes DEF TestsInv
  <1> SUFFICES ASSUME NEW t \in tests
               PROVE  LET s == control[t.stanza]
                      IN /\ ArchAllowed(s.archs) /\ ~s.unknown
                         /\ \A r \in s.restrictions \ options.ignore :
                               r \in Known /\ \A any \in Requires(r) :
                                                 \E c \in any : c \in testbed.caps
    BY DEF RunsWhereItMay
  <1> DEFINE s == control[t.stanza]
  <1>1. s \in Stanza /\ Supported(t.name, s)
    BY DEF Taken, TypeOK
  <1>2. s.archs \in Seq([neg : BOOLEAN, arch : STRING])
    BY <1>1 DEF Stanza
  <1>3. ArchSupported(s.archs) /\ ~s.unknown /\ Compatible(s.restrictions)
    BY <1>1 DEF Supported
  <1>4. ArchAllowed(s.archs)
    BY <1>2, <1>3, ArchRight
  <1>5. \A r \in s.restrictions \ options.ignore :
            r \in Known /\ \A any \in Requires(r) : any \cap testbed.caps # {}
    BY <1>3 DEF Compatible
  <1>6. QED
    BY <1>3, <1>4, <1>5

-----------------------------------------------------------------------------
(* The field Depends.                                                      *)

HerePkgs(g) == D!PkgsOf(D!Here(g))

\* A group that has been read and is valid.
Entered(g) ==
    /\ g = <<D!At>> => \A p \in source : p.here => <<D!Own(p)>> \in synth
    /\ ~D!Word(g) => g \in deps /\ (D!Noted(g) => g \in synth)

\* Each group of the field is still to be read, or has been.
FieldRead ==
    /\ Range(field) \subseteq Range(all)
    /\ depends # "invalid" => \A g \in Range(all) : g \in Range(field) \/ Entered(g)
    /\ depends \notin {"parse", "invalid"} => field = <<>>

\* A group that Dpkg::Deps may refuse is one of the field that has been checked.
DepsValid ==
    \A g \in deps : \/ \A a \in Range(g) : a.parses
                    \/ g \in Range(all) /\ ~D!Word(g) /\ D!Valid(g)

\* Noted are groups of own packages.
SynthOwn == \A g \in synth : D!Noted(g)

\* What apt is asked for, and what it has done.
Asked ==
    depends \in {"apt", "real", "done"} =>
        \A g \in deps : HerePkgs(g) # {} => HerePkgs(g) \in wanted
Installed ==
    depends \in {"real", "done"} => \A w \in wanted : w \cap (real \cup virtual) # {}
OwnInstalled == depends = "done" => \A g \in synth : HerePkgs(g) \cap real # {}

Refused == depends = "bomb" => \E g \in deps : \E a \in Range(g) : ~a.parses

FieldInv ==
    /\ D!TypeOK /\ FieldRead /\ DepsValid /\ SynthOwn
    /\ Asked /\ Installed /\ OwnInstalled /\ Refused

\* The instance has a copy of the library's operator.
LEMMA SameRange == \A g : D!Range(g) = Range(g)
  BY DEF D!Range, Range

LEMMA HeadAndTail ==
    ASSUME NEW S, NEW s \in Seq(S), s # <<>>
    PROVE  /\ Head(s) \in S /\ Tail(s) \in Seq(S) /\ Head(s) \in Range(s)
           /\ Range(Tail(s)) \subseteq Range(s)
           /\ \A x \in Range(s) : x = Head(s) \/ x \in Range(Tail(s))
  <1>1. Len(s) \in Nat \ {0} /\ DOMAIN s = 1..Len(s) /\ Head(s) = s[1] /\ s[1] \in S
    OBVIOUS
  <1>2. Tail(s) \in Seq(S) /\ DOMAIN Tail(s) = 1..Len(s) - 1
    BY <1>1
  <1>3. \A i \in 1..Len(s) - 1 : Tail(s)[i] = s[i + 1]
    BY <1>1
  <1>4. Head(s) \in Range(s)
    BY <1>1 DEF Range
  <1>5. Range(Tail(s)) \subseteq Range(s)
    BY <1>1, <1>2, <1>3 DEF Range
  <1>6. ASSUME NEW x \in Range(s) PROVE x = Head(s) \/ x \in Range(Tail(s))
    <2>1. PICK i \in 1..Len(s) : x = s[i]
      BY <1>1 DEF Range
    <2>2. CASE i = 1
      BY <2>1, <2>2, <1>1
    <2>3. CASE i # 1
      <3>1. i - 1 \in 1..Len(s) - 1
        BY <2>3, <1>1
      <3>2. Tail(s)[i - 1] = s[i]
        BY <3>1, <1>3
      <3>3. QED
        BY <3>1, <3>2, <2>1, <1>2 DEF Range
    <2>4. QED
      BY <2>2, <2>3
  <1>7. QED
    BY <1>1, <1>2, <1>4, <1>5, <1>6

LEMMA Alternatives ==
    ASSUME NEW g \in D!Group
    PROVE  /\ Range(g) \subseteq D!Alternative /\ Range(g) # {}
           /\ DOMAIN g = 1..Len(g) /\ Len(g) \in Nat
           /\ HerePkgs(g) \in SUBSET Pkgs
  <1>1. g \in Seq(D!Alternative) /\ g # <<>>
    BY DEF D!Group
  <1>2. DOMAIN g = 1..Len(g) /\ Len(g) \in Nat \ {0} /\ \A i \in 1..Len(g) : g[i] \in D!Alternative
    BY <1>1
  <1>3. Range(g) \subseteq D!Alternative /\ Range(g) # {}
    BY <1>2 DEF Range
  <1>4. HerePkgs(g) \in SUBSET Pkgs
    <2>1. D!Here(g) \subseteq D!Alternative
      BY <1>3, SameRange DEF D!Here
    <2>2. \A a \in D!Alternative : a.pkg \in Pkgs
      BY DEF D!Alternative
    <2>3. D!PkgsOf(D!Here(g)) \subseteq Pkgs
      BY <2>1, <2>2 DEF D!PkgsOf
    <2>4. QED
      BY <2>3 DEF HerePkgs
  <1>5. QED
    BY <1>2, <1>3, <1>4

\* A group of one alternative.
LEMMA OneAlternative ==
    ASSUME NEW a \in D!Alternative
    PROVE  <<a>> \in D!Group /\ Range(<<a>>) = {a}
  <1>1. <<a>> \in Seq(D!Alternative) /\ <<a>> # <<>>
    OBVIOUS
  <1>2. DOMAIN <<a>> = {1} /\ <<a>>[1] = a
    OBVIOUS
  <1>3. Range(<<a>>) = {a}
    BY <1>2 DEF Range
  <1>4. QED
    BY <1>1, <1>3 DEF D!Group

\* What depends on the source package alone.
LEMMA SameSource ==
    ASSUME UNCHANGED source
    PROVE  \A g : (D!Noted(g)' <=> D!Noted(g)) /\ (D!Valid(g)' <=> D!Valid(g))
  <1>1. \A a : D!IsForeign(a)' <=> D!IsForeign(a)
    BY DEF D!IsForeign, D!OwnNames
  <1>2. \A g : D!Noted(g)' <=> D!Noted(g)
    BY <1>1 DEF D!Noted
  <1>3. \A g : D!Checked(g)' = D!Checked(g)
    BY <1>1 DEF D!Checked
  <1>4. \A g : D!Valid(g)' <=> D!Valid(g)
    BY <1>3 DEF D!Valid
  <1>5. QED
    BY <1>2, <1>4

\* Groups that have been read remain so.
LEMMA EnteredStays ==
    ASSUME NEW g, Entered(g), UNCHANGED source, deps \subseteq deps', synth \subseteq synth'
    PROVE  Entered(g)'
  BY SameSource DEF Entered

\* A step that reads a group.
LEMMA GroupRead ==
    ASSUME FieldInv, NEW h, D!Reads(h), UNCHANGED <<source, all, depends>>,
           deps \subseteq deps', synth \subseteq synth', Entered(h)'
    PROVE  FieldRead' /\ field' \in Seq(D!Group) /\ h \in D!Group /\ h \in Range(all)
  <1>1. depends = "parse" /\ field # <<>> /\ h = Head(field) /\ field' = Tail(field)
    BY DEF D!Reads
  <1>2. field \in Seq(D!Group)
    BY DEF FieldInv, D!TypeOK
  <1>3. /\ h \in D!Group /\ field' \in Seq(D!Group) /\ h \in Range(field)
        /\ Range(field') \subseteq Range(field)
        /\ \A g \in Range(field) : g = h \/ g \in Range(field')
    BY <1>1, <1>2, HeadAndTail
  <1>4. Range(field) \subseteq Range(all)
    BY DEF FieldInv, FieldRead
  <1>5. \A g \in Range(all) : g \in Range(field') \/ Entered(g)'
    <2> SUFFICES ASSUME NEW g \in Range(all), g \notin Range(field') PROVE Entered(g)'
      OBVIOUS
    <2>1. CASE g = h
      BY <2>1
    <2>2. CASE g # h
      <3>1. Entered(g)
        BY <2>2, <1>1, <1>3 DEF FieldInv, FieldRead
      <3>2. QED
        BY <3>1, EnteredStays
    <2>3. QED
      BY <2>1, <2>2
  <1>6. QED
    BY <1>1, <1>3, <1>4, <1>5 DEF FieldRead

\* Where nothing has been installed, only the reading counts.
LEMMA StillReading ==
    ASSUME depends' = "parse"
    PROVE  Asked' /\ Installed' /\ OwnInstalled' /\ Refused'
  BY DEF Asked, Installed, OwnInstalled, Refused

\* The groups of the words that stand for others.
LEMMA Words ==
    /\ <<D!At>> # <<D!Builddeps>> /\ <<D!At>> # <<D!Recommends>>
    /\ \A h : D!Word(h) <=> h \in {<<D!At>>, <<D!Builddeps>>, <<D!Recommends>>}
    /\ D!Foreign("make") \in D!Alternative /\ D!Foreign("make").parses
    /\ D!Foreign("build-essential") \in D!Alternative /\ D!Foreign("build-essential").parses
    /\ D!Foreign("docs") \in D!Alternative /\ D!Foreign("docs").parses
  <1>1. /\ <<D!At>> # <<D!Builddeps>> /\ <<D!At>> # <<D!Recommends>>
        /\ \A h : D!Word(h) <=> h \in {<<D!At>>, <<D!Builddeps>>, <<D!Recommends>>}
    BY DEF D!At, D!Builddeps, D!Recommends, D!Unknown, D!Word
  <1>2. ASSUME NEW n \in Pkgs PROVE D!Foreign(n) \in D!Alternative /\ D!Foreign(n).parses
    BY DEF D!Foreign, D!Alternative
  <1>3. QED
    BY <1>1, <1>2, FieldsAssumption

LEMMA OwnPackages ==
    ASSUME D!TypeOK, NEW p \in source
    PROVE  /\ D!Own(p) \in D!Alternative /\ D!Own(p).parses /\ D!Own(p).pkg = p.pkg
           /\ D!Own(p).here = p.here /\ <<D!Own(p)>> \in D!Group
           /\ p.here => D!Noted(<<D!Own(p)>>)
  <1>1. p \in [pkg : Pkgs, here : BOOLEAN]
    BY FieldsAssumption DEF D!TypeOK
  <1>2. D!Own(p) \in D!Alternative /\ D!Own(p).parses /\ D!Own(p).pkg = p.pkg /\ D!Own(p).here = p.here
    BY <1>1 DEF D!Own, D!Foreign, D!Alternative
  <1>3. <<D!Own(p)>> \in D!Group /\ Range(<<D!Own(p)>>) = {D!Own(p)}
    BY <1>2, OneAlternative
  <1>4. ~D!IsForeign(D!Own(p))
    BY <1>2 DEF D!IsForeign, D!OwnNames
  <1>5. p.here => D!Noted(<<D!Own(p)>>)
    BY <1>2, <1>3, <1>4, SameRange DEF D!Noted, D!Here
  <1>6. QED
    BY <1>2, <1>3, <1>5

LEMMA FieldInit ==
    ASSUME D!Init PROVE FieldInv
  <1> USE DEF D!Init
  <1>1. field \in Seq(D!Group)
    BY FieldsAssumption
  <1>2. D!TypeOK
    BY <1>1 DEF D!TypeOK
  <1>3. FieldRead /\ DepsValid /\ SynthOwn
    BY DEF FieldRead, DepsValid, SynthOwn
  <1>4. Asked /\ Installed /\ OwnInstalled /\ Refused
    BY DEF Asked, Installed, OwnInstalled, Refused
  <1>5. QED
    BY <1>2, <1>3, <1>4 DEF FieldInv

LEMMA ReadAtKeeps ==
    ASSUME FieldInv, D!ReadAt PROVE FieldInv'
  <1> DEFINE own == {<<D!Own(p)>> : p \in source}
             real_ == {<<D!Own(p)>> : p \in {q \in source : q.here}}
  <1>1. /\ D!Reads(<<D!At>>) /\ deps' = deps \cup own /\ synth' = synth \cup real_
        /\ UNCHANGED <<source, all, wanted, real, virtual, depends>>
        /\ depends = "parse" /\ D!TypeOK
    BY DEF D!ReadAt, D!Reads, FieldInv
  <1>2. Entered(<<D!At>>)'
    BY <1>1, Words DEF Entered
  <1>3. FieldRead' /\ field' \in Seq(D!Group)
    BY <1>1, <1>2, GroupRead
  <1>4. \A g \in own : g \in D!Group /\ \A a \in Range(g) : a.parses
    BY <1>1, OwnPackages, OneAlternative
  <1>5. real_ \subseteq own /\ \A g \in real_ : D!Noted(g)
    BY <1>1, OwnPackages
  <1>6. D!TypeOK'
    BY <1>1, <1>3, <1>4, <1>5 DEF D!TypeOK
  <1>7. DepsValid'
    BY <1>1, <1>4, SameSource DEF DepsValid, FieldInv
  <1>8. SynthOwn'
    BY <1>1, <1>5, SameSource DEF SynthOwn, FieldInv
  <1>9. QED
    BY <1>1, <1>3, <1>6, <1>7, <1>8, StillReading DEF FieldInv

LEMMA ReadSourceFieldsKeeps ==
    ASSUME FieldInv, D!ReadSourceFields PROVE FieldInv'
  <1> DEFINE added == {<<D!Foreign("make")>>, <<D!Foreign("build-essential")>>,
                       <<D!Foreign("docs")>>}
  <1>1. /\ UNCHANGED <<source, all, synth, wanted, real, virtual, depends>>
        /\ depends = "parse" /\ D!TypeOK /\ deps \subseteq deps' /\ deps' \subseteq deps \cup added
    BY DEF D!ReadSourceFields, D!Reads, FieldInv
  <1>2. PICK h \in {<<D!Builddeps>>, <<D!Recommends>>} : D!Reads(h)
    BY DEF D!ReadSourceFields
  <1>3. Entered(h)'
    BY Words DEF Entered
  <1>4. FieldRead' /\ field' \in Seq(D!Group)
    BY <1>1, <1>2, <1>3, GroupRead
  <1>5. \A g \in added : g \in D!Group /\ \A a \in Range(g) : a.parses
    BY Words, OneAlternative
  <1>6. D!TypeOK'
    BY <1>1, <1>4, <1>5 DEF D!TypeOK
  <1>7. DepsValid'
    BY <1>1, <1>5, SameSource DEF DepsValid, FieldInv
  <1>8. SynthOwn'
    BY <1>1, SameSource DEF SynthOwn, FieldInv
  <1>9. QED
    BY <1>1, <1>4, <1>6, <1>7, <1>8, StillReading DEF FieldInv

LEMMA ReadGroupKeeps ==
    ASSUME FieldInv, D!ReadGroup PROVE FieldInv'
  <1>0. PICK h : h = Head(field)
    OBVIOUS
  <1>1. /\ D!Reads(h) /\ ~D!Word(h) /\ D!Valid(h) /\ deps' = deps \cup {h}
        /\ synth' = IF D!Noted(h) THEN synth \cup {h} ELSE synth
        /\ UNCHANGED <<source, all, wanted, real, virtual, depends>>
        /\ depends = "parse" /\ D!TypeOK
    BY <1>0 DEF D!ReadGroup, D!Reads, FieldInv
  <1>2. Entered(h)'
    BY <1>1, Words, SameSource DEF Entered
  <1>3. FieldRead' /\ field' \in Seq(D!Group) /\ h \in D!Group /\ h \in Range(all)
    BY <1>1, <1>2, GroupRead
  <1>4. D!TypeOK'
    BY <1>1, <1>3 DEF D!TypeOK
  <1>5. DepsValid'
    BY <1>1, <1>3, SameSource DEF DepsValid, FieldInv
  <1>6. SynthOwn'
    BY <1>1, SameSource DEF SynthOwn, FieldInv
  <1>7. QED
    BY <1>1, <1>3, <1>4, <1>5, <1>6, StillReading DEF FieldInv

\* The steps that only end the reading or the run.
LEMMA EndsKeep ==
    ASSUME FieldInv, D!ReadInvalid \/ D!ParseDone \/ D!Unparsable PROVE FieldInv'
  <1>1. CASE D!ReadInvalid
    <2>1. /\ UNCHANGED <<source, all, deps, synth, wanted, real, virtual>>
          /\ depends' = "invalid" /\ field # <<>> /\ field' = Tail(field) /\ D!TypeOK
      BY <1>1 DEF D!ReadInvalid, D!Reads, FieldInv
    <2>2. field' \in Seq(D!Group) /\ Range(field') \subseteq Range(field)
      BY <2>1, HeadAndTail DEF D!TypeOK
    <2>3. D!TypeOK'
      BY <2>1, <2>2 DEF D!TypeOK
    <2>4. FieldRead' /\ DepsValid' /\ SynthOwn'
      BY <2>1, <2>2, SameSource DEF FieldInv, FieldRead, DepsValid, SynthOwn
    <2>5. Asked' /\ Installed' /\ OwnInstalled' /\ Refused'
      BY <2>1 DEF Asked, Installed, OwnInstalled, Refused
    <2>6. QED
      BY <2>3, <2>4, <2>5 DEF FieldInv
  <1>2. CASE D!ParseDone \/ D!Unparsable
    <2>1. /\ UNCHANGED <<source, all, field, deps, synth, wanted, real, virtual>>
          /\ \/ depends = "parse" /\ depends' = "resolve" /\ field = <<>>
             \/ /\ depends = "resolve" /\ depends' = "bomb"
                /\ \E g \in deps : \E a \in Range(g) : ~a.parses
      BY <1>2, SameRange DEF D!ParseDone, D!Unparsable
    <2>2. D!TypeOK'
      BY <2>1 DEF FieldInv, D!TypeOK
    <2>3. FieldRead' /\ DepsValid' /\ SynthOwn'
      BY <2>1, SameSource, EnteredStays DEF FieldInv, FieldRead, DepsValid, SynthOwn
    <2>4. Asked' /\ Installed' /\ OwnInstalled' /\ Refused'
      BY <2>1 DEF Asked, Installed, OwnInstalled, Refused
    <2>5. QED
      BY <2>2, <2>3, <2>4 DEF FieldInv
  <1>3. QED
    BY <1>1, <1>2

\* A set of naturals has a least element.
LEMMA Least ==
    ASSUME NEW T, T \subseteq Nat, T # {}
    PROVE  \E x \in T : \A y \in T : x <= y
  <1>1. IsWellFoundedOn(OpToRel(<,Nat), Nat)
    BY NatLessThanWellFounded
  <1>2. PICK x \in T : \A y \in T : ~ (<<y, x>> \in OpToRel(<,Nat))
    BY <1>1, WFMin
  <1>3. \A y \in T : ~(y < x)
    BY <1>2 DEF OpToRel
  <1>4. QED
    BY <1>3

\* install_apt() finds a package to install for each group that is only provided.
LEMMA FirstIs ==
    ASSUME NEW g \in D!Group
    PROVE  /\ D!FirstProvided(g) \subseteq HerePkgs(g)
           /\ HerePkgs(g) \cap virtual # {} => D!FirstProvided(g) # {}
  <1> DEFINE T == {i \in DOMAIN g : D!Provided(g[i])}
  <1>1. DOMAIN g = 1..Len(g) /\ Len(g) \in Nat
    BY Alternatives
  <1>2. D!FirstProvided(g) \subseteq HerePkgs(g)
    <2>1. \A i \in DOMAIN g : D!Provided(g[i]) => g[i] \in D!Here(g)
      BY SameRange DEF D!Provided, D!Here, Range
    <2>2. QED
      BY <2>1 DEF D!FirstProvided, HerePkgs, D!PkgsOf
  <1>3. ASSUME HerePkgs(g) \cap virtual # {} PROVE D!FirstProvided(g) # {}
    <2>1. PICK a \in D!Here(g) : a.pkg \in virtual
      BY <1>3 DEF HerePkgs, D!PkgsOf
    <2>2. a \in Range(g) /\ D!Provided(a)
      BY <2>1, SameRange DEF D!Here, D!Provided
    <2>3. T # {} /\ T \subseteq Nat
      BY <2>2, <1>1 DEF Range
    <2>4. PICK i \in T : \A j \in T : i <= j
      BY <2>3, Least
    <2>5. \A j \in 1..i - 1 : ~D!Provided(g[j])
      BY <2>4, <1>1
    <2>6. g[i].pkg \in D!FirstProvided(g)
      BY <2>4, <2>5 DEF D!FirstProvided
    <2>7. QED
      BY <2>6
  <1>4. QED
    BY <1>2, <1>3

LEMMA ResolveKeeps ==
    ASSUME FieldInv, D!Resolve PROVE FieldInv'
  <1>1. /\ UNCHANGED <<source, all, field, deps, synth, real, virtual>>
        /\ depends = "resolve" /\ depends' = "apt"
        /\ wanted' = {HerePkgs(g) : g \in deps} \ {{}} /\ D!TypeOK
    BY DEF D!Resolve, HerePkgs, FieldInv
  <1>2. \A g \in deps : HerePkgs(g) \in SUBSET Pkgs
    BY <1>1, Alternatives DEF D!TypeOK
  <1>3. D!TypeOK'
    BY <1>1, <1>2 DEF D!TypeOK
  <1>4. FieldRead' /\ DepsValid' /\ SynthOwn'
    BY <1>1, SameSource, EnteredStays DEF FieldInv, FieldRead, DepsValid, SynthOwn
  <1>5. Asked'
    BY <1>1 DEF Asked, HerePkgs, D!PkgsOf, D!Here
  <1>6. Installed' /\ OwnInstalled' /\ Refused'
    BY <1>1 DEF Installed, OwnInstalled, Refused
  <1>7. QED
    BY <1>3, <1>4, <1>5, <1>6 DEF FieldInv

LEMMA AptKeeps ==
    ASSUME FieldInv, D!Apt PROVE FieldInv'
  <1>1. /\ UNCHANGED <<source, all, field, deps, synth, wanted>>
        /\ depends = "apt" /\ depends' = "real" /\ D!TypeOK
        /\ real' \subseteq UNION wanted /\ virtual' \subseteq UNION wanted
        /\ \A w \in wanted : w \cap (real' \cup virtual') # {}
    BY DEF D!Apt, FieldInv
  <1>2. D!TypeOK'
    BY <1>1 DEF D!TypeOK
  <1>3. FieldRead' /\ DepsValid' /\ SynthOwn'
    BY <1>1, SameSource, EnteredStays DEF FieldInv, FieldRead, DepsValid, SynthOwn
  <1>4. Asked'
    BY <1>1 DEF FieldInv, Asked, HerePkgs, D!PkgsOf, D!Here
  <1>5. Installed' /\ OwnInstalled' /\ Refused'
    BY <1>1 DEF Installed, OwnInstalled, Refused
  <1>6. QED
    BY <1>2, <1>3, <1>4, <1>5 DEF FieldInv

\* The groups that InstallReal adds to.
Missing == {g \in synth : HerePkgs(g) \cap real = {}}

LEMMA InstallRealKeeps ==
    ASSUME FieldInv, D!InstallReal PROVE FieldInv'
  <1>1. /\ UNCHANGED <<source, all, field, deps, synth, wanted, virtual>>
        /\ depends = "real" /\ depends' = "done" /\ D!TypeOK
        /\ real' = real \cup UNION {D!FirstProvided(g) : g \in Missing}
    BY DEF D!InstallReal, FieldInv, Missing, HerePkgs
  <1>2. \A g \in synth : g \in deps /\ g \in D!Group
    BY <1>1 DEF D!TypeOK
  <1>3. real \subseteq real' /\ \A g \in Missing : D!FirstProvided(g) \subseteq real'
    BY <1>1
  <1>4. real' \subseteq Pkgs
    <2>1. \A g \in Missing : D!FirstProvided(g) \subseteq Pkgs
      BY <1>2, FirstIs, Alternatives DEF Missing
    <2>2. QED
      BY <1>1, <2>1 DEF D!TypeOK
  <1>5. D!TypeOK'
    BY <1>1, <1>4 DEF D!TypeOK
  <1>6. FieldRead' /\ DepsValid' /\ SynthOwn'
    BY <1>1, SameSource, EnteredStays DEF FieldInv, FieldRead, DepsValid, SynthOwn
  <1>7. Asked'
    BY <1>1 DEF FieldInv, Asked, HerePkgs, D!PkgsOf, D!Here
  <1>8. Installed' /\ Refused'
    BY <1>1, <1>3 DEF FieldInv, Installed, Refused
  <1>9. OwnInstalled'
    <2> SUFFICES ASSUME NEW g \in synth PROVE HerePkgs(g) \cap real' # {}
      BY <1>1 DEF OwnInstalled, HerePkgs, D!PkgsOf, D!Here
    <2>1. HerePkgs(g) # {}
      BY DEF FieldInv, SynthOwn, D!Noted, HerePkgs, D!PkgsOf
    <2>2. HerePkgs(g) \cap (real \cup virtual) # {}
      BY <1>1, <1>2, <2>1 DEF FieldInv, Asked, Installed
    <2>3. CASE HerePkgs(g) \cap real # {}
      BY <2>3, <1>3
    <2>4. CASE HerePkgs(g) \cap real = {}
      <3>1. g \in Missing
        BY <2>4 DEF Missing
      <3>2. D!FirstProvided(g) # {} /\ D!FirstProvided(g) \subseteq HerePkgs(g)
        BY <2>2, <2>4, <1>2, FirstIs
      <3>3. QED
        BY <3>1, <3>2, <1>3
    <2>5. QED
      BY <2>3, <2>4
  <1>10. QED
    BY <1>5, <1>6, <1>7, <1>8, <1>9 DEF FieldInv

LEMMA FieldStutter ==
    ASSUME FieldInv, UNCHANGED dvars PROVE FieldInv'
  <1> USE DEF dvars
  <1>1. D!TypeOK'
    BY DEF FieldInv, D!TypeOK
  <1>2. FieldRead' /\ DepsValid' /\ SynthOwn'
    BY SameSource, EnteredStays DEF FieldInv, FieldRead, DepsValid, SynthOwn
  <1>3. Asked' /\ OwnInstalled'
    BY DEF FieldInv, Asked, OwnInstalled, HerePkgs, D!PkgsOf, D!Here
  <1>4. Installed' /\ Refused'
    BY DEF FieldInv, Installed, Refused
  <1>5. QED
    BY <1>1, <1>2, <1>3, <1>4 DEF FieldInv

\* What becomes of the field, in one.
LEMMA FieldNext ==
    ASSUME FieldInv, D!Next \/ UNCHANGED dvars PROVE FieldInv'
  <1>1. CASE D!ReadAt
    BY <1>1, ReadAtKeeps
  <1>2. CASE D!ReadSourceFields
    BY <1>2, ReadSourceFieldsKeeps
  <1>3. CASE D!ReadGroup
    BY <1>3, ReadGroupKeeps
  <1>4. CASE D!ReadInvalid \/ D!ParseDone \/ D!Unparsable
    BY <1>4, EndsKeep
  <1>5. CASE D!Resolve
    BY <1>5, ResolveKeeps
  <1>6. CASE D!Apt
    BY <1>6, AptKeeps
  <1>7. CASE D!InstallReal
    BY <1>7, InstallRealKeeps
  <1>8. CASE D!Done \/ UNCHANGED dvars
    BY <1>8, FieldStutter DEF D!Done, D!vars, dvars
  <1>9. QED
    BY <1>1, <1>2, <1>3, <1>4, <1>5, <1>6, <1>7, <1>8 DEF D!Next

\* What has been read of the field is met.
LEMMA OwnMet ==
    ASSUME FieldInv PROVE D!OwnAreReal /\ D!AllSatisfied
  <1> SUFFICES ASSUME depends = "done" PROVE D!OwnAreReal /\ D!AllSatisfied
    BY DEF D!OwnAreReal, D!AllSatisfied
  <1>1. D!TypeOK /\ \A g \in Range(all) : Entered(g)
    BY DEF FieldInv, FieldRead, Range
  <1>2. \A g \in synth : HerePkgs(g) \cap real # {}
    BY DEF FieldInv, OwnInstalled
  <1>3. ASSUME NEW p \in source, <<D!At>> \in Range(all), p.here PROVE p.pkg \in real
    <2>1. <<D!Own(p)>> \in synth
      BY <1>1, <1>3 DEF Entered
    <2>2. Range(<<D!Own(p)>>) = {D!Own(p)} /\ D!Own(p).pkg = p.pkg
      BY <1>1, OwnPackages, OneAlternative
    <2>3. HerePkgs(<<D!Own(p)>>) \subseteq {p.pkg}
      BY <2>2, SameRange DEF HerePkgs, D!PkgsOf, D!Here
    <2>4. QED
      BY <2>1, <2>3, <1>2
  <1>4. ASSUME NEW g \in Range(all), ~D!Word(g), D!PkgsOf(Range(g)) \subseteq D!OwnNames,
               D!Here(g) # {}
        PROVE  \E a \in Range(g) : a.here /\ a.pkg \in real
    <2>1. D!Noted(g)
      BY <1>4, SameRange DEF D!Noted, D!IsForeign, D!PkgsOf
    <2>2. HerePkgs(g) \cap real # {}
      BY <2>1, <1>1, <1>2, <1>4 DEF Entered
    <2>3. QED
      BY <2>2, SameRange DEF HerePkgs, D!PkgsOf, D!Here
  <1>5. ASSUME NEW g \in Range(all), ~D!Word(g), D!Here(g) # {}
        PROVE  \E a \in Range(g) : a.here /\ a.pkg \in real \cup virtual
    <2>1. HerePkgs(g) # {} /\ g \in deps
      BY <1>1, <1>5 DEF Entered, HerePkgs, D!PkgsOf
    <2>2. HerePkgs(g) \cap (real \cup virtual) # {}
      BY <2>1 DEF FieldInv, Asked, Installed
    <2>3. QED
      BY <2>2, SameRange DEF HerePkgs, D!PkgsOf, D!Here
  <1>6. D!OwnAreReal
    BY <1>3, <1>4, SameRange DEF D!OwnAreReal
  <1>7. D!AllSatisfied
    BY <1>5, SameRange DEF D!AllSatisfied
  <1>8. QED
    BY <1>6, <1>7

LEMMA RefusedBehind ==
    ASSUME FieldInv PROVE D!BlameFits
  <1> SUFFICES ASSUME depends = "bomb"
               PROVE  \E g \in Range(all) : \E j \in DOMAIN g :
                          /\ ~D!Word(g) /\ ~g[j].parses
                          /\ g[j].ok \/ \E i \in DOMAIN g : i < j /\ D!IsForeign(g[i])
    BY SameRange DEF D!BlameFits
  <1>1. PICK g \in deps : \E a \in Range(g) : ~a.parses
    BY DEF FieldInv, Refused
  <1>2. g \in Range(all) /\ ~D!Word(g) /\ D!Valid(g) /\ g \in D!Group
    BY <1>1 DEF FieldInv, DepsValid, D!TypeOK
  <1>3. DOMAIN g = 1..Len(g) /\ Len(g) \in Nat
    BY <1>2, Alternatives
  <1>4. PICK j \in DOMAIN g : ~g[j].parses
    BY <1>1 DEF Range
  <1>5. ASSUME ~g[j].ok PROVE \E i \in DOMAIN g : i < j /\ D!IsForeign(g[i])
    <2>1. g[j] \notin D!Checked(g)
      BY <1>2, <1>5 DEF D!Valid
    <2>2. PICK i \in 1..j - 1 : D!IsForeign(g[i])
      BY <1>4, <2>1 DEF D!Checked
    <2>3. QED
      BY <2>2, <1>3, <1>4
  <1>6. QED
    BY <1>2, <1>4, <1>5

\* What a step installs for its own sake.
LEMMA ForcedAreOwn ==
    ASSUME FieldInv, D!Next \/ UNCHANGED dvars, depends = "real", NEW p \in real' \ real
    PROVE  \E g \in deps :
               p \in D!PkgsOf(D!Here(g)) /\ D!PkgsOf(Range(g)) \subseteq D!OwnNames
  <1>1. D!InstallReal
    BY DEF D!Next, D!ReadAt, D!ReadSourceFields, D!ReadGroup, D!ReadInvalid, D!ParseDone,
           D!Resolve, D!Unparsable, D!Apt, D!Done, D!vars, dvars, D!Reads
  <1>2. PICK g \in synth : p \in D!FirstProvided(g)
    BY <1>1 DEF D!InstallReal
  <1>3. g \in deps /\ g \in D!Group /\ D!Noted(g)
    BY <1>2 DEF FieldInv, D!TypeOK, SynthOwn
  <1>4. p \in HerePkgs(g)
    BY <1>2, <1>3, FirstIs
  <1>5. D!PkgsOf(Range(g)) \subseteq D!OwnNames
    BY <1>3, SameRange DEF D!Noted, D!IsForeign, D!PkgsOf
  <1>6. QED
    BY <1>3, <1>4, <1>5 DEF HerePkgs

-----------------------------------------------------------------------------
(* Both together.                                                          *)

LEMMA PackageInvariant == PackageSpec => [](TestsInv /\ FieldInv)
<1>1. PackageInit => TestsInv /\ FieldInv
  BY TestsInit, FieldInit DEF PackageInit
<1>2. TestsInv /\ FieldInv /\ [PackageNext]_<<vars, dvars>> => (TestsInv /\ FieldInv)'
  <2> SUFFICES ASSUME TestsInv, FieldInv, [PackageNext]_<<vars, dvars>>
               PROVE  TestsInv' /\ FieldInv'
    OBVIOUS
  <2>1. (Next \/ UNCHANGED vars) /\ (D!Next \/ UNCHANGED dvars)
    BY DEF PackageNext, ParseField, ReadControl, Satisfy, Rests
  <2> QED
    BY <2>1, TestsNext, FieldNext
<1> QED
  BY <1>1, <1>2, PTL DEF PackageSpec

\* AsDeclared: whichever stanzas a testbed cannot run and whatever the options
\* select, no declared test is lost, no other one is taken, a command keeps its
\* number, and the exit code says whether something was skipped or invalid.
THEOREM TestsAsDeclared == PackageSpec => []AsDeclared
<1>1. TestsInv /\ FieldInv => AsDeclared
  BY TestsAccounted, NumbersAndExit DEF AsDeclared, PackageTypeOK, TestsInv, FieldInv
<1> QED
  BY <1>1, PackageInvariant, PTL

\* RunsWhereItMay: no test is taken for a testbed that lacks what it asks for.
THEOREM TestsRunWhereTheyMay == PackageSpec => []RunsWhereItMay
<1>1. TestsInv => RunsWhereItMay
  BY TakenMayRun
<1> QED
  BY <1>1, PackageInvariant, PTL

\* DependenciesMet: a test runs with each group of its field satisfied and with
\* the packages of its source real ones, whatever apt chooses to install.
THEOREM TestsHaveDependencies == PackageSpec => []DependenciesMet
<1>1. FieldInv => DependenciesMet
  BY OwnMet, RefusedBehind DEF DependenciesMet
<1> QED
  BY <1>1, PackageInvariant, PTL

\* NothingForced: what install_apt() adds on its own is a package of this source
\* that a group of its own packages only asks for.
THEOREM OnlyOwnForced == PackageSpec => NothingForced
<1>1. FieldInv /\ [PackageNext]_<<vars, dvars>> => [D!ForcedIsAsked]_D!vars
  <2> SUFFICES ASSUME FieldInv, [PackageNext]_<<vars, dvars>>, depends = "real",
                      NEW p \in real' \ real
               PROVE  \E g \in deps : /\ p \in D!PkgsOf(D!Here(g))
                                      /\ D!PkgsOf(D!Range(g)) \subseteq D!OwnNames
    BY DEF D!ForcedIsAsked
  <2>1. D!Next \/ UNCHANGED dvars
    BY DEF PackageNext, ParseField, ReadControl, Satisfy, Rests
  <2> QED
    BY <2>1, ForcedAreOwn, SameRange
<1>2. PackageSpec => D!NothingForced
  BY <1>1, PackageInvariant, PTL DEF PackageSpec, D!NothingForced
<1> QED
  BY <1>2 DEF NothingForced
=============================================================================
