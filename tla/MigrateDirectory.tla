--------------------------- MODULE MigrateDirectory ---------------------------
(***************************************************************************)
(* `carve migrate --directory` (src/migrate_directory.rs): runs that walk  *)
(* a source tree, build the migrated tree in a staging directory of their  *)
(* own beside the output, and publish it under the output's name.          *)
(*                                                                         *)
(* Runs share the filesystem with each other and with everybody else: an   *)
(* entry of the source may be swapped at any time, something may appear    *)
(* under the output's name, a run may be killed between any two steps.     *)
(***************************************************************************)
EXTENDS Naturals, Sequences, FiniteSets, Functions

CONSTANTS
    Run,        \* runs with the same source and output
    Entries,    \* names of the source, in the order they are converted
    Markdown,   \* those with a Markdown extension
    OutputOf,   \* [name -> lower-cased name in the output]
    Report,     \* migration-report.json
    Inode,      \* identities a file can have
    MaxSwaps    \* bound: changes made to the source by others

Name == Range(Entries)
ASSUME EntryAssumption == Markdown \subseteq Name /\ Name \subseteq DOMAIN OutputOf
ASSUME EntriesAssumption == Entries \in Seq(Name)
ASSUME RunAssumption == "other" \notin Run /\ "nobody" \notin Run
ASSUME SwapAssumption == MaxSwaps \in Nat

VARIABLES
    unix,       \* identities are compared, a rename replaces an empty directory
    tree,       \* the source: [name -> [kind, ino]]; a link's ino is its target's
    output,     \* what stands under the output's name: [by, files]
    pc, at,     \* where each run is, and the entry it looks at
    seen,       \* what each run's walk saw
    staging,    \* each run's staging directory: [output name -> [from, ino]], or Absent
    refused,    \* observer: what each run was not allowed to clean up
    swaps       \* changes made so far

vars == <<unix, tree, output, pc, at, seen, staging, refused, swaps>>

Absent == [by |-> "nobody", files |-> << >>]
NoStaging == [there |-> FALSE, files |-> << >>]
Other == "other"
Live == {"check", "walk", "stage", "lstat", "open", "report", "claim", "unclaim", "rename"}
Entry == [kind: {"file", "link", "gone"}, ino: Inode]

Empty(dir) == dir # Absent /\ DOMAIN dir.files = {}

Init ==
    /\ unix \in BOOLEAN
    /\ tree \in [Name -> Entry] /\ \A n \in Name : tree[n].kind # "gone"
    /\ \A m, n \in Name : m # n => tree[m].ino # tree[n].ino
    /\ output = Absent
    /\ pc = [r \in Run |-> "check"] /\ at = [r \in Run |-> 1]
    /\ seen = [r \in Run |-> << >>]
    /\ staging = [r \in Run |-> NoStaging]
    /\ refused = [r \in Run |-> {}]
    /\ swaps = 0

-----------------------------------------------------------------------------
Goto(r, label) == pc' = [pc EXCEPT ![r] = label]
Advance(r) == at' = [at EXCEPT ![r] = @ + 1]
Restart(r) == at' = [at EXCEPT ![r] = 1]
Entered(r) == Entries[at[r]]

\* remove_dir_all(&temporary), whenever the conversion returns an error.  It may be
\* refused at any file, and its own error is ignored; stuck is what was refused before.
Failed(r, stuck) ==
    /\ Goto(r, "failed")
    /\ \/ /\ staging' = [staging EXCEPT ![r] = NoStaging]
          /\ refused' = [refused EXCEPT ![r] = stuck]
       \/ /\ staging[r].there
          /\ \E left \in SUBSET DOMAIN staging[r].files :
               staging' = [staging EXCEPT ![r].files = Restrict(@, left)]
          /\ refused' = [refused EXCEPT ![r] = stuck \cup {"staging"}]

Check(r) ==
    /\ pc[r] = "check"
    /\ Goto(r, IF output = Absent THEN "walk" ELSE "failed")
    /\ UNCHANGED <<unix, tree, output, at, seen, staging, refused, swaps>>

\* collect: one entry's metadata, the link's own if it is one.
Walk(r) ==
    /\ pc[r] = "walk" /\ at[r] <= Len(Entries)
    /\ seen' = [seen EXCEPT ![r] =
                  IF tree[Entered(r)].kind = "gone" THEN @
                  ELSE [n \in DOMAIN @ \cup {Entered(r)} |->
                          IF n = Entered(r) THEN tree[n] ELSE @[n]]]
    /\ Advance(r)
    /\ UNCHANGED <<unix, tree, output, pc, staging, refused, swaps>>

IsMarkdown(r, n) == n \in DOMAIN seen[r] \cap Markdown /\ seen[r][n].kind = "file"

EndWalk(r) ==
    /\ pc[r] = "walk" /\ at[r] > Len(Entries)
    /\ Goto(r, IF \E n \in Name : IsMarkdown(r, n) THEN "stage" ELSE "failed")
    /\ Restart(r)
    /\ UNCHANGED <<unix, tree, output, seen, staging, refused, swaps>>

\* A name nobody else uses: the output's, the process and the time.
Stage(r) ==
    /\ pc[r] = "stage"
    /\ staging' = [staging EXCEPT ![r] = [there |-> TRUE, files |-> << >>]]
    /\ Goto(r, "lstat")
    /\ UNCHANGED <<unix, tree, output, at, seen, refused, swaps>>

-----------------------------------------------------------------------------
Converted(r, n) == n \in DOMAIN seen[r] /\ seen[r][n].kind = "file"

Skip(r) ==
    /\ pc[r] = "lstat" /\ at[r] <= Len(Entries)
    /\ ~Converted(r, Entered(r))
    /\ Advance(r)
    /\ UNCHANGED <<unix, tree, output, pc, seen, staging, refused, swaps>>

\* Without identities (not unix) every file is the one the walk saw.
Same(r, n) == unix => tree[n].ino = seen[r][n].ino

\* Slip: two inputs may have the same output.
FreshName(r, n) == OutputOf[n] # Report
Fresh(r, n) == OutputOf[n] \notin {Report} \cup DOMAIN staging[r].files

\* The output's name is new, and the entry is still the regular file the walk saw.
Lstat(r) ==
    /\ pc[r] = "lstat" /\ at[r] <= Len(Entries)
    /\ Converted(r, Entered(r))
    /\ IF /\ Fresh(r, Entered(r))
          /\ tree[Entered(r)].kind = "file" /\ Same(r, Entered(r))
       THEN Goto(r, "open") /\ UNCHANGED <<staging, refused>>
       ELSE Failed(r, {})
    /\ UNCHANGED <<unix, tree, output, at, seen, swaps>>

\* Slip: what was opened is not compared with what the walk saw.
Unchecked(r, n) == tree[n].kind # "gone"

\* Opening follows a link; the file that was opened is compared again.
Unchanged(r, n) == tree[n].kind # "gone" /\ Same(r, n)

Convert(r) ==
    /\ pc[r] = "open"
    /\ LET n == Entered(r)
       IN IF Unchanged(r, n)
          THEN /\ staging' = [staging EXCEPT ![r].files =
                                [o \in DOMAIN @ \cup {OutputOf[n]} |->
                                   IF o = OutputOf[n] THEN [from |-> n, ino |-> tree[n].ino] ELSE @[o]]]
               /\ Advance(r)
               /\ Goto(r, "lstat")
               /\ UNCHANGED refused
          ELSE Failed(r, {}) /\ UNCHANGED at
    /\ UNCHANGED <<unix, tree, output, seen, swaps>>

\* The links are checked and the report is written.
WriteReport(r) ==
    /\ pc[r] = "lstat" /\ at[r] > Len(Entries)
    /\ staging' = [staging EXCEPT ![r].files =
                     [o \in DOMAIN @ \cup {Report} |->
                        IF o = Report THEN [from |-> Report, ino |-> 0] ELSE @[o]]]
    /\ Goto(r, "claim")
    /\ UNCHANGED <<unix, tree, output, at, seen, refused, swaps>>

-----------------------------------------------------------------------------
\* Slip: whatever is there counts as claimed.
ClaimAnyway(r) ==
    /\ pc[r] = "claim"
    /\ output' = IF output = Absent THEN [by |-> r, files |-> << >>] ELSE output
    /\ Goto(r, "rename")
    /\ UNCHANGED <<unix, tree, at, seen, staging, refused, swaps>>

\* An exclusive mkdir of the output.
Claim(r) ==
    /\ pc[r] = "claim"
    /\ IF output = Absent
       THEN /\ output' = [by |-> r, files |-> << >>]
            /\ Goto(r, IF unix THEN "rename" ELSE "unclaim")
            /\ UNCHANGED <<staging, refused>>
       ELSE Failed(r, {}) /\ UNCHANGED output
    /\ UNCHANGED <<unix, tree, at, seen, swaps>>

\* Not unix: a directory cannot be renamed onto another, so it goes first.  Only an
\* empty one can go, and even that may be refused: then the claim stays.
Unclaim(r) ==
    /\ pc[r] = "unclaim"
    /\ \/ /\ Empty(output)
          /\ output' = Absent /\ Goto(r, "rename") /\ UNCHANGED <<staging, refused>>
       \/ /\ Failed(r, IF Empty(output) THEN {"output"} ELSE {})
          /\ UNCHANGED output
    /\ UNCHANGED <<unix, tree, at, seen, swaps>>

MayReplace == output = Absent \/ (unix /\ Empty(output))

Rename(r) ==
    /\ pc[r] = "rename" /\ MayReplace
    /\ output' = [by |-> r, files |-> staging[r].files]
    /\ staging' = [staging EXCEPT ![r] = NoStaging]
    /\ Goto(r, "done")
    /\ UNCHANGED <<unix, tree, at, seen, refused, swaps>>

\* Slip: the claimed directory is left behind.
RenameFailsLeaving(r) ==
    /\ pc[r] = "rename"
    /\ Failed(r, {})
    /\ UNCHANGED <<unix, tree, output, at, seen, swaps>>

\* A rename that fails takes the claimed directory away again, if it is empty and
\* the system lets it; the staging directory goes either way.
RenameFails(r) ==
    /\ pc[r] = "rename"
    /\ \/ /\ output' = IF Empty(output) THEN Absent ELSE output
          /\ Failed(r, {})
       \/ /\ Empty(output) /\ UNCHANGED output
          /\ Failed(r, {"output"})
    /\ UNCHANGED <<unix, tree, at, seen, swaps>>

\* Any other system call that fails.  A file that was not written to its end is not
\* one of the staging directory's files.
Fail(r) ==
    /\ pc[r] \in Live \ {"rename", "unclaim"}
    /\ Failed(r, {})
    /\ UNCHANGED <<unix, tree, output, at, seen, swaps>>

-----------------------------------------------------------------------------
\* The others: a killed run, the source, the output's name.
Kill(r) ==
    /\ pc[r] \in Live
    /\ Goto(r, "killed")
    /\ UNCHANGED <<unix, tree, output, at, seen, staging, refused, swaps>>

Swap(n, entry) ==
    /\ swaps < MaxSwaps /\ swaps' = swaps + 1
    /\ tree' = [tree EXCEPT ![n] = entry]
    /\ UNCHANGED <<unix, output, pc, at, seen, staging, refused>>

Appear ==
    /\ output = Absent \/ (Empty(output) /\ output.by # Other)
    /\ swaps < MaxSwaps /\ swaps' = swaps + 1
    /\ \E names \in (IF output = Absent THEN {{}, {Report}} ELSE {{Report}}) :
         output' = [by |-> Other, files |-> [o \in names |-> [from |-> o, ino |-> 0]]]
    /\ UNCHANGED <<unix, tree, pc, at, seen, staging, refused>>

\* The claim a run left under the output's name is removed by hand.
Tidy(r) ==
    /\ pc[r] \in {"killed", "failed"} /\ output.by = r /\ Empty(output)
    /\ output' = Absent
    /\ UNCHANGED <<unix, tree, pc, at, seen, staging, refused, swaps>>

Ended == (\A r \in Run : pc[r] \notin Live) /\ UNCHANGED vars

Step(r) ==
    \/ Check(r) \/ Walk(r) \/ EndWalk(r) \/ Stage(r)
    \/ Skip(r) \/ Lstat(r) \/ Convert(r) \/ WriteReport(r)
    \/ Claim(r) \/ Unclaim(r) \/ Rename(r) \/ RenameFails(r) \/ Fail(r)

Next ==
    \/ \E r \in Run : Step(r) \/ Kill(r) \/ Tidy(r)
    \/ \E n \in Name, entry \in Entry : Swap(n, entry)
    \/ Appear \/ Ended

\* A run goes on unless it is killed.
Spec == Init /\ [][Next]_vars /\ \A r \in Run : WF_vars(Step(r))

-----------------------------------------------------------------------------
TypeOK ==
    /\ unix \in BOOLEAN
    /\ tree \in [Name -> Entry]
    /\ output.by \in Run \cup {Other, "nobody"}
    /\ \A r \in Run :
         /\ pc[r] \in Live \cup {"done", "failed", "killed"}
         /\ at[r] \in 1..(Len(Entries) + 1)
         /\ DOMAIN seen[r] \subseteq Name
         /\ DOMAIN staging[r].files # {} => staging[r].there
         /\ refused[r] \subseteq {"output", "staging"}
    /\ swaps \in 0..MaxSwaps

\* The output's name never holds a part of a migration: a tree a run put there has
\* one file for every regular file its walk saw, each made from that entry, and the
\* report - whenever the run is killed, fails or is overtaken.
PublishedWhole ==
    \A r \in Run :
      output.by = r /\ ~Empty(output) =>
        /\ Report \in DOMAIN output.files
        /\ \A n \in Name : Converted(r, n) =>
             OutputOf[n] \in DOMAIN output.files /\ output.files[OutputOf[n]].from = n

\* "an entry swapped for a symlink or another file in between is refused instead of
\* followed": where files have identities, whatever a run staged is the file its walk
\* saw.
SameFile ==
    unix => \A r \in Run : \A o \in DOMAIN staging[r].files \ {Report} :
        LET f == staging[r].files[o] IN f.ino = seen[r][f.from].ino

\* What somebody else put under the output's name, an empty directory too, is never
\* replaced or removed where a rename replaces an empty directory: the exclusive mkdir
\* claims the name before the rename.  Elsewhere the claim is removed before the
\* rename, and an empty directory of somebody else's with it.
ForeignKept == [][unix /\ output.by = Other => output' = output]_vars

\* "removes its staging directory when a conversion fails": a run that ends on its
\* own leaves its result or nothing.  What it does leave it was refused to remove, each
\* for itself: a claim that cannot go keeps no staging directory, a staging directory
\* that cannot go keeps no claim, and the claim left behind is an empty directory.
NothingLeft ==
    \A r \in Run :
      /\ pc[r] = "done" => ~staging[r].there
      /\ pc[r] = "failed" =>
           /\ staging[r].there => "staging" \in refused[r]
           /\ output.by = r => "output" \in refused[r] /\ Empty(output)
      /\ output.by = r => pc[r] \in {"unclaim", "rename", "done", "killed", "failed"}
===============================================================================
