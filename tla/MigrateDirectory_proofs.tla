----------------------- MODULE MigrateDirectory_proofs -----------------------
(***************************************************************************)
(* What a migration leaves under the output's name and beside it, for any  *)
(* number of runs, entries and changes by others.                          *)
(*                                                                         *)
(* The invariant follows one run: while it builds, its files cover the     *)
(* entries it has passed, each made from what the walk saw (an entry goes  *)
(* under a name no earlier one has, so nothing built is lost); once built  *)
(* they cover everything.  What stands under the output's name as this     *)
(* run's is its empty claim until the rename and all it built afterwards;  *)
(* where a rename replaces an empty directory it meets the claim, or what  *)
(* somebody else has put there, which is not empty.                        *)
(***************************************************************************)
EXTENDS MigrateDirectory, TLAPS

Labels == Live \cup {"done", "failed", "killed"}

\* The parts that are records and functions stay so.
Shape ==
    /\ unix \in BOOLEAN
    /\ tree \in [Name -> Entry]
    /\ swaps \in 0..MaxSwaps
    /\ output = [by |-> output.by, files |-> output.files]
    /\ output.by \in Run \cup {Other, "nobody"}
    /\ pc \in [Run -> Labels]
    /\ at \in [Run -> 1..(Len(Entries) + 1)]
    /\ seen = [r \in Run |-> seen[r]]
    /\ staging = [r \in Run |-> staging[r]]
    /\ refused \in [Run -> SUBSET {"output", "staging"}]
    /\ \A r \in Run : DOMAIN seen[r] \subseteq Name
    /\ \A r \in Run : staging[r] = [there |-> staging[r].there, files |-> staging[r].files]

\* The file that entry n was converted to is among these.
Holds(files, n) == OutputOf[n] \in DOMAIN files /\ files[OutputOf[n]].from = n

\* What a run built is what it saw, as far as it has come.
Building(r) ==
    /\ pc[r] \in {"check", "walk", "stage", "done"} => staging[r] = NoStaging
    /\ pc[r] = "failed" => staging[r] = NoStaging \/ "staging" \in refused[r]
    /\ pc[r] \in {"check", "stage"} => at[r] = 1
    /\ pc[r] \in {"lstat", "open"} =>
         /\ Report \notin DOMAIN staging[r].files
         /\ \A k \in 1..Len(Entries) :
              k < at[r] /\ Converted(r, Entries[k]) => Holds(staging[r].files, Entries[k])
    /\ pc[r] = "open" =>
         at[r] <= Len(Entries) /\ Converted(r, Entered(r)) /\ Fresh(r, Entered(r))
    /\ pc[r] \in {"claim", "unclaim", "rename"} =>
         /\ Report \in DOMAIN staging[r].files
         /\ \A n \in Name : Converted(r, n) => Holds(staging[r].files, n)
    /\ pc[r] \in {"lstat", "open", "claim", "unclaim", "rename"} => staging[r].there
    /\ DOMAIN staging[r].files # {} => staging[r].there

\* Whatever it staged is the file its walk saw.
Faithful(r) ==
    unix => \A o \in DOMAIN staging[r].files \ {Report} :
        staging[r].files[o].ino = seen[r][staging[r].files[o].from].ino

\* What stands under the output's name as a run's is its claim or its result, the
\* claim after a failure only if its removal was refused; and with the exclusive mkdir nobody else's empty directory meets the rename.
Published(r) ==
    /\ output.by = r =>
         /\ pc[r] \in {"unclaim", "rename", "done", "killed", "failed"}
         /\ pc[r] # "done" => DOMAIN output.files = {}
         /\ pc[r] = "failed" => "output" \in refused[r]
         /\ pc[r] = "done" =>
              /\ Report \in DOMAIN output.files
              /\ \A n \in Name : Converted(r, n) => Holds(output.files, n)
    /\ unix => pc[r] # "unclaim"
    /\ unix /\ pc[r] = "rename" =>
         output.by = r \/ (output.by = Other /\ DOMAIN output.files # {})

IInv ==
    /\ Shape
    /\ \A r \in Run : Building(r) /\ Faithful(r) /\ Published(r)

-----------------------------------------------------------------------------
LEMMA NoFiles == DOMAIN << >> = {}
  OBVIOUS

LEMMA InitInv == Init => IInv
<1> SUFFICES ASSUME Init PROVE IInv
  OBVIOUS
<1> USE NoFiles
<1>1. Shape
  BY SwapAssumption, EntriesAssumption DEF Init, Shape, Absent, NoStaging, Labels, Live
<1>2. ASSUME NEW r \in Run PROVE Building(r) /\ Faithful(r) /\ Published(r)
  BY <1>2, RunAssumption DEF Init, Building, Faithful, Published, Absent, NoStaging, Other
<1> QED
  BY <1>1, <1>2 DEF IInv

\* A step that is not a run's own, or not q's, leaves what q built.
LEMMA Untouched ==
    ASSUME NEW q \in Run, Building(q), Faithful(q),
           pc'[q] = pc[q], at'[q] = at[q], seen'[q] = seen[q], staging'[q] = staging[q],
           refused'[q] = refused[q], unix' = unix
    PROVE  Building(q)' /\ Faithful(q)'
  BY DEF Building, Faithful, Converted, Fresh, Entered, Holds, NoStaging

\* A step of one run is seen through what it does to that run and to the output.
LEMMA OneRun ==
    ASSUME IInv, NEW r \in Run, NEW label \in Labels,
           pc' = [pc EXCEPT ![r] = label],
           at' \in [Run -> 1..(Len(Entries) + 1)], \A q \in Run \ {r} : at'[q] = at[q],
           seen' = [q \in Run |-> seen'[q]], \A q \in Run \ {r} : seen'[q] = seen[q],
           DOMAIN seen'[r] \subseteq Name,
           staging' = [q \in Run |-> staging'[q]], \A q \in Run \ {r} : staging'[q] = staging[q],
           staging'[r] = [there |-> staging'[r].there, files |-> staging'[r].files],
           refused' \in [Run -> SUBSET {"output", "staging"}],
           \A q \in Run \ {r} : refused'[q] = refused[q],
           unix' = unix, tree' = tree, swaps' = swaps,
           output' = [by |-> output'.by, files |-> output'.files],
           output'.by \in Run \cup {Other, "nobody"},
           Building(r)', Faithful(r)',
           \A q \in Run : Published(q)'
    PROVE  IInv'
<1>1. Shape'
  BY DEF IInv, Shape
<1>2. ASSUME NEW q \in Run \ {r} PROVE Building(q)' /\ Faithful(q)'
  BY <1>2, Untouched DEF IInv, Shape
<1> QED
  BY <1>1, <1>2 DEF IInv

\* If the output stays, a run that was not publishing may take any other place.
LEMMA OutputStays ==
    ASSUME IInv, NEW r \in Run, NEW label \in Labels \ {"unclaim", "rename"},
           pc[r] \notin {"unclaim", "rename", "done", "killed", "failed"},
           pc' = [pc EXCEPT ![r] = label], \A q \in Run \ {r} : seen'[q] = seen[q] /\ refused'[q] = refused[q],
           unix' = unix, output' = output
    PROVE  \A q \in Run : Published(q)'
  BY DEF IInv, Shape, Published, Converted, Holds

\* A run's staging directory with other files in it.
LEMMA Refilled ==
    ASSUME IInv, NEW r \in Run, NEW files, staging' = [staging EXCEPT ![r].files = files]
    PROVE  /\ staging' = [q \in Run |-> staging'[q]] /\ \A q \in Run \ {r} : staging'[q] = staging[q]
           /\ staging'[r] = [there |-> staging[r].there, files |-> files]
<1>1. staging = [q \in Run |-> staging[q]]
  BY DEF IInv, Shape
<1>2. staging[r] = [there |-> staging[r].there, files |-> staging[r].files]
  BY DEF IInv, Shape
<1>3. [staging[r] EXCEPT !.files = files] = [there |-> staging[r].there, files |-> files]
  BY <1>2
<1> QED
  BY <1>1, <1>3

\* A run that gives up drops what it built, or a part of it stays and that is known.
LEMMA FailedDrops ==
    ASSUME IInv, NEW r \in Run, NEW stuck \in SUBSET {"output", "staging"}, Failed(r, stuck),
           unix' = unix, \A q \in Run : seen'[q] = seen[q]
    PROVE  /\ Building(r)' /\ Faithful(r)'
           /\ staging' = [q \in Run |-> staging'[q]]
           /\ \A q \in Run \ {r} : staging'[q] = staging[q]
           /\ staging'[r] = [there |-> staging'[r].there, files |-> staging'[r].files]
           /\ pc' = [pc EXCEPT ![r] = "failed"] /\ "failed" \in Labels
           /\ refused' \in [Run -> SUBSET {"output", "staging"}]
           /\ \A q \in Run \ {r} : refused'[q] = refused[q]
           /\ stuck \subseteq refused'[r]
<1>1. pc' = [pc EXCEPT ![r] = "failed"] /\ "failed" \in Labels /\ pc'[r] = "failed"
  BY DEF Failed, Goto, Labels, IInv, Shape
<1>2. CASE staging' = [staging EXCEPT ![r] = NoStaging] /\ refused' = [refused EXCEPT ![r] = stuck]
  BY <1>1, <1>2, NoFiles DEF IInv, Shape, NoStaging, Building, Faithful
<1>3. CASE ~(staging' = [staging EXCEPT ![r] = NoStaging] /\ refused' = [refused EXCEPT ![r] = stuck])
  <2> DEFINE old == staging[r].files
  <2>1. PICK left \in SUBSET DOMAIN old : staging' = [staging EXCEPT ![r].files = Restrict(old, left)]
    BY <1>3 DEF Failed
  <2>2. staging[r].there /\ refused' = [refused EXCEPT ![r] = stuck \cup {"staging"}]
    BY <1>3 DEF Failed
  <2> DEFINE new == Restrict(old, left)
  <2>3. DOMAIN new = left /\ \A o \in left : new[o] = old[o]
    BY DEF Restrict
  <2>4. /\ staging' = [q \in Run |-> staging'[q]] /\ \A q \in Run \ {r} : staging'[q] = staging[q]
        /\ staging'[r] = [there |-> staging[r].there, files |-> new]
    BY <2>1, Refilled
  <2> HIDE DEF new
  <2>5. /\ refused' \in [Run -> SUBSET {"output", "staging"}] /\ \A q \in Run \ {r} : refused'[q] = refused[q]
        /\ refused'[r] = stuck \cup {"staging"}
    BY <2>2 DEF IInv, Shape
  <2>6. Building(r)'
    BY <1>1, <2>2, <2>4, <2>5 DEF Building
  <2>7. Faithful(r)'
    BY <2>3, <2>4 DEF IInv, Faithful
  <2> QED
    BY <1>1, <2>4, <2>5, <2>6, <2>7
<1> QED
  BY <1>2, <1>3

\* Where nothing was claimed, that is all there is to a failure.
LEMMA GivesUp ==
    ASSUME IInv, NEW r \in Run, Failed(r, {}), UNCHANGED <<unix, tree, output, at, seen, swaps>>,
           pc[r] \notin {"unclaim", "rename", "done", "killed", "failed"}
    PROVE  IInv'
<1>1. "failed" \in Labels \ {"unclaim", "rename"}
  BY DEF Labels
<1> {} \in SUBSET {"output", "staging"}
  OBVIOUS
<1>0. /\ pc' = [pc EXCEPT ![r] = "failed"]
      /\ \A q \in Run \ {r} : refused'[q] = refused[q]
  BY FailedDrops
<1>2. \A q \in Run : Published(q)'
  BY <1>0, <1>1, OutputStays
<1>3. /\ at' \in [Run -> 1..(Len(Entries) + 1)] /\ seen' = [q \in Run |-> seen'[q]]
      /\ DOMAIN seen'[r] \subseteq Name
      /\ output' = [by |-> output'.by, files |-> output'.files]
      /\ output'.by \in Run \cup {Other, "nobody"}
  BY DEF IInv, Shape
<1> QED
  BY <1>1, <1>2, <1>3, FailedDrops, OneRun

-----------------------------------------------------------------------------
LEMMA CheckStep == ASSUME IInv, NEW r \in Run, Check(r) PROVE IInv'
<1> DEFINE label == IF output = Absent THEN "walk" ELSE "failed"
<1>1. pc' = [pc EXCEPT ![r] = label] /\ label \in Labels \ {"unclaim", "rename"}
  BY DEF Check, Goto, Labels, Live
<1>2. pc[r] = "check" /\ UNCHANGED <<unix, tree, output, at, seen, staging, refused, swaps>>
  BY DEF Check
<1>3. Building(r)' /\ Faithful(r)'
  BY <1>1, <1>2, NoFiles DEF IInv, Shape, Building, Faithful, NoStaging
<1>4. \A q \in Run : Published(q)'
  BY <1>1, <1>2, OutputStays
<1> QED
  BY <1>1, <1>2, <1>3, <1>4, OneRun DEF IInv, Shape

LEMMA WalkStep == ASSUME IInv, NEW r \in Run, Walk(r) PROVE IInv'
<1>1. pc[r] = "walk" /\ UNCHANGED <<unix, tree, output, pc, staging, refused, swaps>>
  BY DEF Walk
<1>2. pc' = [pc EXCEPT ![r] = "walk"] /\ "walk" \in Labels \ {"unclaim", "rename"}
  BY <1>1 DEF Labels, Live, IInv, Shape
<1>3. at' \in [Run -> 1..(Len(Entries) + 1)] /\ \A q \in Run \ {r} : at'[q] = at[q]
  BY EntriesAssumption DEF Walk, Advance, IInv, Shape
<1>4. Entered(r) \in Name
  BY EntriesAssumption DEF Walk, Entered, IInv, Shape
<1>5. /\ seen' = [q \in Run |-> seen'[q]] /\ \A q \in Run \ {r} : seen'[q] = seen[q]
      /\ DOMAIN seen'[r] \subseteq Name
  BY <1>4 DEF Walk, IInv, Shape
<1>6. Building(r)' /\ Faithful(r)'
  BY <1>1, NoFiles DEF IInv, Shape, Building, Faithful, NoStaging
<1>7. \A q \in Run : Published(q)'
  BY <1>1, <1>2, <1>5, OutputStays
<1> QED
  BY <1>1, <1>2, <1>3, <1>5, <1>6, <1>7, OneRun DEF IInv, Shape

LEMMA EndWalkStep == ASSUME IInv, NEW r \in Run, EndWalk(r) PROVE IInv'
<1> DEFINE label == IF \E n \in Name : IsMarkdown(r, n) THEN "stage" ELSE "failed"
<1>1. pc' = [pc EXCEPT ![r] = label] /\ label \in Labels \ {"unclaim", "rename"}
  BY DEF EndWalk, Goto, Labels, Live
<1>2. pc[r] = "walk" /\ UNCHANGED <<unix, tree, output, seen, staging, refused, swaps>>
  BY DEF EndWalk
<1>3. at' \in [Run -> 1..(Len(Entries) + 1)] /\ at'[r] = 1 /\ \A q \in Run \ {r} : at'[q] = at[q]
  BY EntriesAssumption DEF EndWalk, Restart, IInv, Shape
<1> HIDE DEF label
<1>4. Building(r)' /\ Faithful(r)'
  <2>1. pc'[r] \in {"stage", "failed"}
    BY <1>1 DEF label, IInv, Shape
  <2> QED BY <2>1, <1>2, <1>3, NoFiles DEF IInv, Shape, Building, Faithful, NoStaging
<1>5. \A q \in Run : Published(q)'
  BY <1>1, <1>2, OutputStays
<1> QED
  BY <1>1, <1>2, <1>3, <1>4, <1>5, OneRun DEF IInv, Shape

LEMMA StageStep == ASSUME IInv, NEW r \in Run, Stage(r) PROVE IInv'
<1>1. pc' = [pc EXCEPT ![r] = "lstat"] /\ "lstat" \in Labels \ {"unclaim", "rename"}
  BY DEF Stage, Goto, Labels, Live
<1>2. pc[r] = "stage" /\ UNCHANGED <<unix, tree, output, at, seen, refused, swaps>>
  BY DEF Stage
<1>3. /\ staging' = [q \in Run |-> staging'[q]] /\ \A q \in Run \ {r} : staging'[q] = staging[q]
      /\ staging'[r] = [there |-> TRUE, files |-> << >>]
  BY DEF Stage, IInv, Shape
<1>4. Building(r)' /\ Faithful(r)'
  <2>1. pc'[r] = "lstat" /\ at'[r] = 1 /\ DOMAIN staging'[r].files = {} /\ staging'[r].there
    BY <1>1, <1>2, <1>3, NoFiles DEF IInv, Shape, Building
  <2> QED BY <2>1 DEF Building, Faithful
<1>5. \A q \in Run : Published(q)'
  BY <1>1, <1>2, OutputStays
<1> QED
  BY <1>1, <1>2, <1>3, <1>4, <1>5, OneRun DEF IInv, Shape

LEMMA SkipStep == ASSUME IInv, NEW r \in Run, Skip(r) PROVE IInv'
<1>1. pc[r] = "lstat" /\ UNCHANGED <<unix, tree, output, pc, seen, staging, refused, swaps>>
  BY DEF Skip
<1>2. pc' = [pc EXCEPT ![r] = "lstat"] /\ "lstat" \in Labels \ {"unclaim", "rename"}
  BY <1>1 DEF Labels, Live, IInv, Shape
<1>3. at' = [at EXCEPT ![r] = at[r] + 1] /\ at[r] \in 1..Len(Entries) /\ Len(Entries) \in Nat
  BY EntriesAssumption DEF Skip, Advance, IInv, Shape
<1>4. at' \in [Run -> 1..(Len(Entries) + 1)] /\ at'[r] = at[r] + 1 /\ \A q \in Run \ {r} : at'[q] = at[q]
  BY <1>3 DEF IInv, Shape
<1>5. Building(r)'
  BY <1>1, <1>3, <1>4 DEF Skip, Entered, IInv, Building, Converted, Holds
<1>6. Faithful(r)'
  BY <1>1 DEF IInv, Faithful
<1>7. \A q \in Run : Published(q)'
  BY <1>1, <1>2, OutputStays
<1> QED
  BY <1>1, <1>2, <1>4, <1>5, <1>6, <1>7, OneRun DEF IInv, Shape

LEMMA LstatStep == ASSUME IInv, NEW r \in Run, Lstat(r) PROVE IInv'
<1>1. pc[r] = "lstat" /\ UNCHANGED <<unix, tree, output, at, seen, swaps>>
  BY DEF Lstat
<1>2. CASE Failed(r, {})
  BY <1>1, <1>2, GivesUp
<1>3. CASE Fresh(r, Entered(r)) /\ Goto(r, "open") /\ UNCHANGED <<staging, refused>>
  <2>1. pc' = [pc EXCEPT ![r] = "open"] /\ "open" \in Labels \ {"unclaim", "rename"}
    BY <1>3 DEF Goto, Labels, Live
  <2>2. pc'[r] = "open" /\ staging'[r] = staging[r]
    BY <1>3, <2>1 DEF IInv, Shape
  <2>3. Building(r)'
    BY <1>1, <1>3, <2>2 DEF Lstat, IInv, Building, Converted, Entered, Fresh, Holds
  <2>4. Faithful(r)'
    BY <1>1, <2>2 DEF IInv, Faithful
  <2>5. \A q \in Run : Published(q)'
    BY <1>1, <1>3, <2>1, OutputStays
  <2> QED
    BY <1>1, <1>3, <2>1, <2>3, <2>4, <2>5, OneRun DEF IInv, Shape
<1> QED
  BY <1>2, <1>3 DEF Lstat

\* A conversion adds a file under a name that is new, so the ones before stay.
LEMMA ConvertStep == ASSUME IInv, NEW r \in Run, Convert(r) PROVE IInv'
<1> DEFINE n == Entered(r)
           old == staging[r].files
<1>1. pc[r] = "open" /\ UNCHANGED <<unix, tree, output, seen, swaps>>
  BY DEF Convert
<1>2. CASE Failed(r, {}) /\ UNCHANGED at
  BY <1>1, <1>2, GivesUp
<1>3. CASE ~(Failed(r, {}) /\ UNCHANGED at)
  <2> DEFINE new == [o \in DOMAIN old \cup {OutputOf[n]} |->
                       IF o = OutputOf[n] THEN [from |-> n, ino |-> tree[n].ino] ELSE old[o]]
  <2>1. /\ Same(r, n)
        /\ staging' = [staging EXCEPT ![r].files = new]
        /\ at' = [at EXCEPT ![r] = @ + 1]
        /\ pc' = [pc EXCEPT ![r] = "lstat"]
        /\ UNCHANGED refused
    BY <1>3 DEF Convert, Unchanged, Advance, Goto
  <2>2. /\ at[r] \in 1..Len(Entries) /\ Len(Entries) \in Nat
        /\ Converted(r, n) /\ Fresh(r, n) /\ n = Entries[at[r]]
    BY <1>1, EntriesAssumption DEF IInv, Shape, Building, Entered
  <2>3. /\ staging' = [q \in Run |-> staging'[q]] /\ \A q \in Run \ {r} : staging'[q] = staging[q]
        /\ staging'[r] = [there |-> staging[r].there, files |-> new]
    BY <2>1, Refilled
  <2>4. /\ at' \in [Run -> 1..(Len(Entries) + 1)] /\ at'[r] = at[r] + 1
        /\ \A q \in Run \ {r} : at'[q] = at[q]
    BY <2>1, <2>2 DEF IInv, Shape
  <2>5. "lstat" \in Labels \ {"unclaim", "rename"} /\ pc'[r] = "lstat"
    BY <2>1 DEF Labels, Live, IInv, Shape
  <2>6. /\ DOMAIN new = DOMAIN old \cup {OutputOf[n]}
        /\ OutputOf[n] \notin {Report} \cup DOMAIN old
        /\ Holds(new, n) /\ new[OutputOf[n]].ino = tree[n].ino
        /\ \A o \in DOMAIN old : new[o] = old[o]
    BY <2>2 DEF Fresh, Holds
  <2> HIDE DEF new, old, n
  <2>7. Report \notin DOMAIN new /\ DOMAIN new # {}
    BY <1>1, <2>6 DEF IInv, Building, old
  <2>8. ASSUME NEW k \in 1..Len(Entries), k < at[r] + 1, Converted(r, Entries[k])
        PROVE  Holds(new, Entries[k])
    <3>1. CASE k = at[r]
      BY <3>1, <2>2, <2>6
    <3>2. CASE k < at[r]
      <4>1. Holds(old, Entries[k])
        BY <3>2, <2>8, <1>1 DEF IInv, Building, old
      <4> QED BY <4>1, <2>6 DEF Holds
    <3> QED BY <3>1, <3>2, <2>8, <2>2
  <2>9. staging[r].there
    \* The staging directory is there from Stage on.
    BY <1>1 DEF IInv, Building
  <2>10. Building(r)'
    BY <1>1, <2>3, <2>4, <2>5, <2>7, <2>8, <2>9 DEF Building, Converted
  <2>11. Faithful(r)'
    <3>1. ASSUME unix, NEW o \in DOMAIN new \ {Report}
          PROVE  new[o].ino = seen[r][new[o].from].ino
      <4>1. CASE o \in DOMAIN old
        BY <3>1, <4>1, <2>6 DEF IInv, Faithful, old
      <4>2. CASE o = OutputOf[n]
        BY <3>1, <4>2, <2>1, <2>6 DEF Same, Holds
      <4> QED BY <3>1, <4>1, <4>2, <2>6
    <3> QED BY <3>1, <1>1, <2>3 DEF Faithful
  <2>12. \A q \in Run : Published(q)'
    BY <1>1, <2>1, <2>5, OutputStays
  <2> QED
    BY <1>1, <2>1, <2>3, <2>4, <2>5, <2>10, <2>11, <2>12, OneRun DEF IInv, Shape
<1> QED
  BY <1>2, <1>3

LEMMA WriteReportStep == ASSUME IInv, NEW r \in Run, WriteReport(r) PROVE IInv'
<1> DEFINE old == staging[r].files
           new == [o \in DOMAIN old \cup {Report} |->
                     IF o = Report THEN [from |-> Report, ino |-> 0] ELSE old[o]]
<1>1. pc[r] = "lstat" /\ UNCHANGED <<unix, tree, output, at, seen, refused, swaps>>
  BY DEF WriteReport
<1>2. pc' = [pc EXCEPT ![r] = "claim"] /\ "claim" \in Labels \ {"unclaim", "rename"}
  BY DEF WriteReport, Goto, Labels, Live
<1>3. /\ staging' = [q \in Run |-> staging'[q]] /\ \A q \in Run \ {r} : staging'[q] = staging[q]
      /\ staging'[r] = [there |-> staging[r].there, files |-> new]
  <2>1. staging' = [staging EXCEPT ![r].files = new]
    BY DEF WriteReport
  <2> QED BY <2>1, Refilled
<1>4. pc'[r] = "claim"
  BY <1>2 DEF IInv, Shape
<1>5. /\ Report \notin DOMAIN old /\ DOMAIN new = DOMAIN old \cup {Report}
      /\ \A o \in DOMAIN old : new[o] = old[o]
  BY <1>1 DEF IInv, Building
<1> HIDE DEF new, old
<1>6. ASSUME NEW n \in Name, Converted(r, n) PROVE Holds(new, n)
  <2>1. PICK k \in 1..Len(Entries) : Entries[k] = n
    BY EntriesAssumption DEF Name, Range
  <2>2. k < at[r]
    BY <1>1, EntriesAssumption DEF WriteReport, IInv, Shape
  <2>3. Holds(old, n)
    BY <1>1, <1>6, <2>1, <2>2 DEF IInv, Building, old
  <2> QED BY <2>3, <1>5 DEF Holds
<1>7. staging[r].there
  BY <1>1 DEF IInv, Building
<1>8. Building(r)'
  BY <1>1, <1>3, <1>4, <1>5, <1>6, <1>7 DEF Building, Converted
<1>9. Faithful(r)'
  BY <1>1, <1>3, <1>5 DEF IInv, Faithful, old
<1>10. \A q \in Run : Published(q)'
  BY <1>1, <1>2, OutputStays
<1> QED
  BY <1>1, <1>2, <1>3, <1>8, <1>9, <1>10, OneRun DEF IInv, Shape

\* The exclusive mkdir succeeds only where nothing stands, so whatever waits to
\* be renamed under identities lost its claim to something that is not empty.
LEMMA ClaimStep == ASSUME IInv, NEW r \in Run, Claim(r) PROVE IInv'
<1>1. pc[r] = "claim" /\ UNCHANGED <<unix, tree, at, seen, swaps>>
  BY DEF Claim
<1>2. CASE output # Absent
  <2>1. Failed(r, {}) /\ UNCHANGED output
    BY <1>2 DEF Claim
  <2> QED BY <1>1, <2>1, GivesUp
<1>3. CASE output = Absent
  <2> DEFINE label == IF unix THEN "rename" ELSE "unclaim"
  <2>1. /\ output' = [by |-> r, files |-> << >>] /\ UNCHANGED <<staging, refused>>
        /\ pc' = [pc EXCEPT ![r] = label]
    BY <1>3 DEF Claim, Goto
  <2>2. /\ label \in Labels /\ label \in {"rename", "unclaim"} /\ (unix => label = "rename")
        /\ output.by = "nobody" /\ output'.by = r /\ DOMAIN output'.files = {}
    BY <1>3, <2>1, NoFiles DEF Absent, Labels, Live
  <2> HIDE DEF label
  <2>3. pc'[r] = label
    BY <2>1 DEF IInv, Shape
  <2>4. Building(r)' /\ Faithful(r)'
    BY <1>1, <2>1, <2>2, <2>3 DEF IInv, Building, Faithful, Converted, Holds
  <2>5. ASSUME NEW q \in Run \ {r} PROVE Published(q)'
    <3>1. pc'[q] = pc[q]
      BY <2>1 DEF IInv, Shape
    <3>2. ~(unix /\ pc[q] = "rename")
      BY <2>2, RunAssumption DEF IInv, Published, Other
    <3> QED BY <1>1, <2>2, <3>1, <3>2 DEF IInv, Published
  <2>6. Published(r)'
    BY <1>1, <2>2, <2>3 DEF Published
  <2>7. output' = [by |-> output'.by, files |-> output'.files]
    BY <2>1
  <2> QED
    BY <1>1, <2>1, <2>2, <2>4, <2>5, <2>6, <2>7, OneRun DEF IInv, Shape
<1> QED
  BY <1>2, <1>3

\* A run that fails while publishing leaves its claim only where that was refused.
LEMMA ClaimStays ==
    ASSUME IInv, NEW r \in Run, NEW stuck \in SUBSET {"output", "staging"}, Failed(r, stuck),
           pc[r] \in {"unclaim", "rename"}, UNCHANGED <<unix, tree, output, at, seen, swaps>>,
           output.by = r => "output" \in stuck
    PROVE  IInv'
<1>1. /\ Building(r)' /\ Faithful(r)'
      /\ staging' = [q \in Run |-> staging'[q]]
      /\ \A q \in Run \ {r} : staging'[q] = staging[q]
      /\ staging'[r] = [there |-> staging'[r].there, files |-> staging'[r].files]
      /\ pc' = [pc EXCEPT ![r] = "failed"] /\ "failed" \in Labels
      /\ refused' \in [Run -> SUBSET {"output", "staging"}]
      /\ \A q \in Run \ {r} : refused'[q] = refused[q]
      /\ stuck \subseteq refused'[r]
  BY FailedDrops
<1>2. pc'[r] = "failed" /\ \A q \in Run \ {r} : pc'[q] = pc[q]
  BY <1>1 DEF IInv, Shape
<1>3. Published(r)'
  BY <1>1, <1>2 DEF IInv, Published
<1>4. \A q \in Run \ {r} : Published(q)'
  BY <1>1, <1>2 DEF IInv, Published, Converted, Holds
<1>5. /\ at' \in [Run -> 1..(Len(Entries) + 1)] /\ seen' = [q \in Run |-> seen'[q]]
      /\ DOMAIN seen'[r] \subseteq Name
      /\ output' = [by |-> output'.by, files |-> output'.files]
      /\ output'.by \in Run \cup {Other, "nobody"}
  BY DEF IInv, Shape
<1> QED
  BY <1>1, <1>3, <1>4, <1>5, OneRun

LEMMA UnclaimStep == ASSUME IInv, NEW r \in Run, Unclaim(r) PROVE IInv'
<1>1. pc[r] = "unclaim" /\ UNCHANGED <<unix, tree, at, seen, swaps>>
  BY DEF Unclaim
<1>2. ~unix
  BY <1>1 DEF IInv, Published
<1>3. CASE Empty(output) /\ output' = Absent /\ Goto(r, "rename") /\ UNCHANGED <<staging, refused>>
  <2>1. output' = Absent /\ UNCHANGED <<staging, refused>> /\ pc' = [pc EXCEPT ![r] = "rename"]
    BY <1>3 DEF Goto
  <2>2. "rename" \in Labels
    BY DEF Labels, Live
  <2>3. pc'[r] = "rename"
    BY <2>1 DEF IInv, Shape
  <2>4. Building(r)' /\ Faithful(r)'
    BY <1>1, <2>1, <2>3 DEF IInv, Building, Faithful, Converted, Holds
  <2>5. output'.by = "nobody" /\ output' = [by |-> output'.by, files |-> output'.files]
    BY <2>1 DEF Absent
  <2>6. \A q \in Run : Published(q)'
    BY <1>1, <1>2, <2>5, RunAssumption DEF Published
  <2> QED
    BY <1>1, <2>1, <2>2, <2>4, <2>5, <2>6, OneRun DEF IInv, Shape
<1>4. CASE Failed(r, IF Empty(output) THEN {"output"} ELSE {}) /\ UNCHANGED output
  <2> DEFINE stuck == IF Empty(output) THEN {"output"} ELSE {}
  <2>1. stuck \in SUBSET {"output", "staging"} /\ (Empty(output) => "output" \in stuck)
    OBVIOUS
  <2> HIDE DEF stuck
  <2>2. Failed(r, stuck)
    BY <1>4 DEF stuck
  <2>3. output.by = r => "output" \in stuck
    BY <1>1, <2>1, RunAssumption DEF IInv, Published, Empty, Absent
  <2> QED
    BY <1>1, <1>4, <2>1, <2>2, <2>3, ClaimStays
<1> QED
  BY <1>1, <1>3, <1>4 DEF Unclaim

LEMMA RenameStep == ASSUME IInv, NEW r \in Run, Rename(r) PROVE IInv'
<1>1. /\ pc[r] = "rename" /\ MayReplace /\ UNCHANGED <<unix, tree, at, seen, refused, swaps>>
      /\ output' = [by |-> r, files |-> staging[r].files]
      /\ staging' = [staging EXCEPT ![r] = NoStaging]
      /\ pc' = [pc EXCEPT ![r] = "done"]
  BY DEF Rename, Goto
<1>2. /\ "done" \in Labels /\ pc'[r] = "done" /\ staging'[r] = NoStaging
      /\ staging' = [q \in Run |-> staging'[q]]
      /\ \A q \in Run \ {r} : staging'[q] = staging[q] /\ pc'[q] = pc[q]
      /\ NoStaging = [there |-> NoStaging.there, files |-> NoStaging.files]
      /\ DOMAIN NoStaging.files = {}
  BY <1>1, NoFiles DEF IInv, Shape, Labels, NoStaging
<1>3. Building(r)' /\ Faithful(r)'
  BY <1>2 DEF Building, Faithful
<1>4. Published(r)'
  BY <1>1, <1>2 DEF IInv, Building, Published, Converted, Holds
<1>5. ASSUME NEW q \in Run \ {r} PROVE Published(q)'
  <2>1. ~(unix /\ pc[q] = "rename")
    BY <1>1, RunAssumption, NoFiles DEF IInv, Published, MayReplace, Empty, Absent, Other
  <2> QED BY <1>1, <1>2, <2>1 DEF IInv, Published
<1> QED
  BY <1>1, <1>2, <1>3, <1>4, <1>5, OneRun DEF IInv, Shape

LEMMA RenameFailsStep == ASSUME IInv, NEW r \in Run, RenameFails(r) PROVE IInv'
<1>1. pc[r] = "rename" /\ UNCHANGED <<unix, tree, at, seen, swaps>>
  BY DEF RenameFails
<1>2. CASE Empty(output) /\ output' = Absent /\ Failed(r, {})
  <2>1. output'.by = "nobody" /\ output' = [by |-> output'.by, files |-> output'.files]
    BY <1>2 DEF Absent
  <2>2. {} \in SUBSET {"output", "staging"}
    OBVIOUS
  <2>3. /\ pc' = [pc EXCEPT ![r] = "failed"] /\ "failed" \in Labels /\ pc'[r] = "failed"
        /\ \A q \in Run \ {r} : pc'[q] = pc[q] /\ refused'[q] = refused[q]
    <3>1. /\ pc' = [pc EXCEPT ![r] = "failed"] /\ "failed" \in Labels
          /\ \A q \in Run \ {r} : refused'[q] = refused[q]
      BY <1>1, <1>2, <2>2, FailedDrops
    <3> QED BY <3>1 DEF IInv, Shape
  <2>4. ASSUME unix, NEW q \in Run \ {r} PROVE pc[q] # "rename"
    BY <1>1, <1>2, <2>4, RunAssumption DEF IInv, Published, Empty, Other
  <2>5. \A q \in Run : Published(q)'
    BY <1>1, <2>1, <2>3, <2>4, RunAssumption DEF IInv, Published
  <2> QED
    BY <1>1, <1>2, <2>1, <2>2, <2>3, <2>5, FailedDrops, OneRun DEF IInv, Shape
<1>3. CASE ~Empty(output) /\ UNCHANGED output /\ Failed(r, {})
  <2>1. output.by # r
    BY <1>1, <1>3, RunAssumption DEF IInv, Published, Empty, Absent
  <2> QED
    BY <1>1, <1>3, <2>1, ClaimStays
<1>4. CASE UNCHANGED output /\ Failed(r, {"output"})
  BY <1>1, <1>4, ClaimStays
<1> QED
  BY <1>2, <1>3, <1>4 DEF RenameFails

LEMMA FailStep == ASSUME IInv, NEW r \in Run, Fail(r) PROVE IInv'
<1>1. pc[r] \notin {"unclaim", "rename", "done", "killed", "failed"}
  BY DEF Fail, Live
<1> QED
  BY <1>1, GivesUp DEF Fail

-----------------------------------------------------------------------------
LEMMA KillStep == ASSUME IInv, NEW r \in Run, Kill(r) PROVE IInv'
<1>1. /\ pc[r] \in Live /\ pc' = [pc EXCEPT ![r] = "killed"]
      /\ UNCHANGED <<unix, tree, output, at, seen, staging, refused, swaps>>
  BY DEF Kill, Goto
<1>2. pc'[r] = "killed" /\ "killed" \in Labels /\ pc[r] # "done" /\ \A q \in Run \ {r} : pc'[q] = pc[q]
  BY <1>1 DEF IInv, Shape, Labels, Live
<1>3. Building(r)' /\ Faithful(r)'
  BY <1>1, <1>2 DEF IInv, Building, Faithful
<1>4. \A q \in Run : Published(q)'
  BY <1>1, <1>2 DEF IInv, Published, Converted, Holds
<1> QED
  BY <1>1, <1>2, <1>3, <1>4, OneRun DEF IInv, Shape

\* What others do leaves every run as it is.
LEMMA ByOthers ==
    ASSUME IInv, UNCHANGED <<unix, pc, at, seen, staging, refused>>,
           tree' \in [Name -> Entry], swaps' \in 0..MaxSwaps,
           output' = [by |-> output'.by, files |-> output'.files],
           output'.by \in Run \cup {Other, "nobody"},
           \A q \in Run : Published(q)'
    PROVE  IInv'
<1>1. Shape'
  BY DEF IInv, Shape
<1>2. ASSUME NEW q \in Run PROVE Building(q)' /\ Faithful(q)'
  BY <1>2, Untouched DEF IInv
<1> QED
  BY <1>1, <1>2 DEF IInv

LEMMA SwapStep == ASSUME IInv, NEW n \in Name, NEW entry \in Entry, Swap(n, entry) PROVE IInv'
<1>1. UNCHANGED <<unix, output, pc, at, seen, staging, refused>>
  BY DEF Swap
<1>2. tree' \in [Name -> Entry] /\ swaps' \in 0..MaxSwaps
  BY SwapAssumption DEF Swap, IInv, Shape
<1>3. \A q \in Run : Published(q)'
  BY <1>1 DEF IInv, Published, Converted, Holds
<1> QED
  BY <1>1, <1>2, <1>3, ByOthers DEF IInv, Shape

LEMMA AppearStep == ASSUME IInv, Appear PROVE IInv'
<1>1. UNCHANGED <<unix, tree, pc, at, seen, staging, refused>> /\ swaps' \in 0..MaxSwaps
  BY SwapAssumption DEF Appear, IInv, Shape
<1>2. PICK names \in (IF output = Absent THEN {{}, {Report}} ELSE {{Report}}) :
        output' = [by |-> Other, files |-> [o \in names |-> [from |-> o, ino |-> 0]]]
  BY DEF Appear
<1>3. output'.by = Other /\ DOMAIN output'.files = names
  BY <1>2
<1>4. ASSUME NEW q \in Run PROVE Published(q)'
  <2>1. CASE output = Absent
    <3>1. ~(unix /\ pc[q] = "rename")
      BY <2>1, RunAssumption DEF IInv, Published, Absent, Other
    <3> QED BY <1>1, <1>3, <3>1, RunAssumption DEF IInv, Published, Other
  <2>2. CASE output # Absent
    BY <1>1, <1>2, <1>3, <2>2, RunAssumption DEF IInv, Published, Other
  <2> QED BY <2>1, <2>2
<1>5. tree' \in [Name -> Entry]
  BY <1>1 DEF IInv, Shape
<1>6. output' = [by |-> output'.by, files |-> output'.files]
  BY <1>2
<1> QED
  BY <1>1, <1>3, <1>4, <1>5, <1>6, ByOthers

LEMMA TidyStep == ASSUME IInv, NEW r \in Run, Tidy(r) PROVE IInv'
<1>1. /\ pc[r] \in {"killed", "failed"} /\ output.by = r /\ Empty(output) /\ output' = Absent
      /\ UNCHANGED <<unix, tree, pc, at, seen, staging, refused, swaps>>
  BY DEF Tidy
<1>2. output'.by = "nobody" /\ output' = [by |-> output'.by, files |-> output'.files]
  BY <1>1 DEF Absent
<1>3. ASSUME NEW q \in Run PROVE Published(q)'
  BY <1>1, <1>2, RunAssumption DEF IInv, Published, Empty, Other
<1> QED
  BY <1>1, <1>2, <1>3, ByOthers DEF IInv, Shape

-----------------------------------------------------------------------------
LEMMA Stutters == ASSUME IInv, UNCHANGED vars PROVE IInv'
<1>1. UNCHANGED <<unix, tree, output, pc, at, seen, staging, refused, swaps>>
  BY DEF vars
<1>2. \A q \in Run : Published(q)'
  BY <1>1 DEF IInv, Published, Converted, Holds
<1> QED
  BY <1>1, <1>2, ByOthers DEF IInv, Shape

LEMMA StepInv == ASSUME IInv, Next PROVE IInv'
<1>1. ASSUME NEW r \in Run, Step(r) PROVE IInv'
  BY <1>1, CheckStep, WalkStep, EndWalkStep, StageStep, SkipStep, LstatStep, ConvertStep,
     WriteReportStep, ClaimStep, UnclaimStep, RenameStep, RenameFailsStep, FailStep DEF Step
<1>2. ASSUME NEW r \in Run, Kill(r) \/ Tidy(r) PROVE IInv'
  BY <1>2, KillStep, TidyStep
<1>3. ASSUME NEW n \in Name, NEW entry \in Entry, Swap(n, entry) PROVE IInv'
  BY <1>3, SwapStep
<1> QED
  BY <1>1, <1>2, <1>3, AppearStep, Stutters DEF Next, Ended

\* Whatever the others do and wherever a run is killed, the four parts hold.
THEOREM InvHolds == Spec => []IInv
<1>1. IInv /\ [Next]_vars => IInv'
  BY StepInv, Stutters
<1> QED
  BY <1>1, InitInv, PTL DEF Spec

\* Every value has its type.
THEOREM TypeCorrect == Spec => []TypeOK
<1>1. IInv => TypeOK
  BY DEF IInv, Shape, Building, TypeOK, Labels
<1> QED
  BY <1>1, InvHolds, PTL

\* The output's name never holds a part of a migration.
THEOREM OutputIsWhole == Spec => []PublishedWhole
<1>1. ASSUME IInv, NEW r \in Run, output.by = r, ~Empty(output)
      PROVE  /\ Report \in DOMAIN output.files
             /\ \A n \in Name : Converted(r, n) => Holds(output.files, n)
  <2>1. output # Absent
    BY <1>1, RunAssumption DEF Absent
  <2>2. pc[r] = "done"
    BY <1>1, <2>1 DEF IInv, Published, Empty
  <2> QED BY <1>1, <2>2 DEF IInv, Published
<1>2. IInv => PublishedWhole
  BY <1>1 DEF PublishedWhole, Holds
<1> QED
  BY <1>2, InvHolds, PTL

\* Whatever a run staged is the file its walk saw, however the source is swapped.
THEOREM StagedIsSeen == Spec => []SameFile
<1>1. IInv => SameFile
  BY DEF IInv, Faithful, SameFile
<1> QED
  BY <1>1, InvHolds, PTL

\* A run that ends on its own leaves its result or nothing, but for what it was refused
\* to remove: its staging directory, or the empty directory of its claim.
THEOREM NothingIsLeft == Spec => []NothingLeft
<1>1. IInv => NothingLeft
  BY RunAssumption DEF IInv, Building, Published, NothingLeft, NoStaging, Empty, Absent
<1> QED
  BY <1>1, InvHolds, PTL

\* With the exclusive mkdir before the rename, what somebody else put there stays.
THEOREM ForeignStays == Spec => ForeignKept
<1>1. ASSUME IInv, Next, unix, output.by = Other PROVE output' = output
  <2>1. ASSUME NEW r \in Run, Step(r) PROVE output' = output
    <3>1. output # Absent /\ pc[r] # "unclaim" /\ (pc[r] = "rename" => ~Empty(output))
      BY <1>1, RunAssumption DEF IInv, Published, Absent, Other, Empty
    <3> QED
      BY <2>1, <3>1 DEF Step, Check, Walk, EndWalk, Stage, Skip, Lstat, Convert, WriteReport,
         Claim, Unclaim, Rename, RenameFails, Fail, MayReplace
  <2>2. ASSUME NEW r \in Run, Kill(r) \/ Tidy(r) PROVE output' = output
    BY <1>1, <2>2, RunAssumption DEF Kill, Tidy, Other
  <2>3. ASSUME NEW n \in Name, NEW entry \in Entry, Swap(n, entry) PROVE output' = output
    BY <2>3 DEF Swap
  <2>4. ~Appear
    <3>1. output # Absent
      BY <1>1 DEF Absent, Other
    <3> QED BY <1>1, <3>1 DEF Appear
  <2>5. CASE Ended
    BY <2>5 DEF Ended, vars
  <2> QED BY <1>1, <2>1, <2>2, <2>3, <2>4, <2>5 DEF Next
<1>2. IInv /\ [Next]_vars => (unix /\ output.by = Other => output' = output)
  BY <1>1 DEF vars
<1> QED
  BY <1>2, InvHolds, PTL DEF Spec, ForeignKept
===============================================================================
