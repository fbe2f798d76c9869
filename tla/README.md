# A TLA+ model of carve-rs

carve-rs parses the Carve markup language, renders it as HTML, Markdown, terminal
or plain text, writes it back as Carve source, converts other formats to it, expands
`{{ include }}` directives, and migrates whole directories. Most of it is pure: a
function of one text. The models are about the parts that are not - the parts that keep
state across many steps, call out to somebody else in the middle, undo what they did,
or share the filesystem - because a unit test reaches few of their interleavings.

Every module is translated from the code under `src/`; `PROJECT.json` names, for each
definition, the lines it stands for.

## 1. Inventory

| Part | Code | State it keeps | Operations | Hard because | What makes it correct |
|---|---|---|---|---|---|
| Include expansion: resolution | `includes.rs` `expand_run`, `resolve_child`, `expand_child`, `with_child` | stack of documents, resolver calls, bytes, a latch, dependency list, inclusions, warnings | refuse, ask the resolver, enter, merge, reject | recursion through a callback whose answers are arbitrary; limits that latch; reports that must be undone with a rejected child | no cycle, bounded work, latches exact, report complete within its cap, the pass ends |
| Include expansion: ids | `includes.rs` `reserve_id`, `rollback_reservations`, `defer_rename`, `rename_child_ids`, `finish_renames` | table of claims with counts and owners, journal frames, pending renames | claim, release, defer a rename, commit or roll back, name | ids are claimed before it is known whether the element stays; renames wait until the end | claims count the elements; ids apart; a rejection restores; every placeholder named |
| Include expansion: footnotes | `includes.rs` `merge_footnotes`, notes in `expand_child` and in the root | a label map per document, renames of labels | expand a body, merge a child's notes | maps are changed while they are walked; three places merge | a reference keeps its definition; a parent keeps its labels |
| Include expansion: report of renames | `includes.rs` `warn_with_position`, `finish_renames` | capped list of warnings, indices into it | raise, rewrite, remove | indices shift when entries are removed; the cap counts | what is reported is what happened |
| Regions, include walk, `FileSystemResolver` | `includes/regions.rs`, `include_walk.rs`, `includes.rs` | none | extract a region, list directives, read a file | two system calls per read | the region asked for; nothing outside the root |
| Directory migration | `migrate_directory.rs` | staging directory, claim on the output, what the walk saw | walk, convert, claim, rename, clean up | other processes, a kill at any step | the output is whole or not there; nobody else's files are touched |
| Expansion budgets | `abbr_budget.rs`, `index_budget.rs` and their callers in the renderers | thread-local remainders, first costs of labels | install, spend, restore | renders nest; a label's cost changes as the budget goes | output bounded by input; a refusal is final |
| Incremental parsing, node identity | `incremental.rs`, `ast_sidecars.rs` | snapshot: source, tree, ids, next id | parse, edit | positions shift; snapshots can be cloned | tree of a full parse; ids unique, never given again, kept for exactly the unchanged nodes |
| AST merge and AST patches | `ast_merge.rs`, `ast_patch.rs`, `ast_fingerprint.rs` | none in the code; the two copies and the patch between calls | match, merge, resolve; create, apply forwards or backwards | two writers at once; blocks have no identity and are matched by content; a patch outlives the document it was made for | nothing lost or brought back without a conflict; both sides get the same; a patch turns only its own documents |
| Source patches | `source/source_patch.rs` | none | create, apply | a stale text with the same fingerprint | apply undoes create |
| Document ids | `document_ids.rs`, the stamping and indexing of headings in `parse/inline_resolution.rs`, their use in `render.rs` and `citations.rs` | counts and reserved ids per walk, the index of headings, a thread-local registry per render | number and stamp headings, build the index, seed a registry, hand out an id, nest, run a pass again | five walks number the same headings separately, in two orders, with different sets of ids in view | ids apart; what one walk foretells the next one does; a nested render leaves no trace |
| Parser (blocks, prepasses, inlines, positions) | `parse.rs`, `parse/` | none between calls | parse | grammar | conformance corpus |
| Renderers, writer, importers, bridges, lint, tables | `render*.rs`, `*_migrate.rs`, `*_import.rs`, `prosemirror/`, `lint*`, `table/` | none, but for thread-locals of a render | one call each | volume | conformance corpus |

How they interact. An include pass parses each source with the parser, calls the
resolver (a callback of the host) once per directive it does not refuse, and hands the
merged tree to a renderer. All four views of the pass - resolution, ids, footnotes,
report - are fields of one `State`; a rejection in the first is what rolls back the
second and discards the maps of the third. A renderer installs the budgets and calls
the extensions' hooks, which may render in turn. A profile filters a tree before it is
rendered and flattens table cells with the plain-text renderer. The parse stamps the
numbers of headings on the tree; an extension may then change the tree; a render seeds a
registry from whatever tree it gets, and extensions and citations ask that registry for
ids. A merge takes three trees and returns one tree or a list of conflicts, which the
caller answers in a second merge; a patch is made between two trees and applied to a
third that should be one of them. A directory migration calls the importers file by file.

## 2. Modules

| Module | Models | Checked by |
|---|---|---|
| `IncludeBudget` | abstract: what a pass may read - at most the calls, nothing after a latch | property of `include_resolution` |
| `IncludeResolution` | the pass: frames, refusals, answers, limits, dependencies, warnings | `include_resolution` |
| `IncludeResolution_proofs` | its invariants and the implementation of `IncludeBudget`, for all constants | TLAPS |
| `IncludeReservations` | ids: claims, journal, deferred renames, naming | `include_reservations` |
| `IncludeReservations_proofs` | all its properties, for all documents and any nesting | TLAPS |
| `IncludeFootnotes` | notes: label maps, bodies, merges and renames | `include_footnotes`, `footnote_lost` |
| `IncludeReport` | the capped list of warnings and the renames in it | `include_report` |
| `IncludeMerge_proofs` | the properties of `IncludeFootnotes`, for any labels, documents and nesting, and of `IncludeReport`, for any rules, cap and number of warnings | TLAPS |
| `MigrateDirectory` | concurrent runs of a migration, others, kills | `migrate_directory` |
| `MigrateDirectory_proofs` | all its properties, for any number of runs and entries | TLAPS |
| `RenderBudget` | nested renders charging both budgets | `render_budget`, `render_empty` |
| `RenderBudget_proofs` | its invariants for all sizes and depths | TLAPS |
| `NodeIdentity` | a parse session with node identity over any history of edits | `node_identity` |
| `IdNamespace` | abstract: nested renders, each handing out ids that were free | property of `document_ids` |
| `DocumentIds` | the walks that number, stamp, index, seed and render the ids of a document | `document_ids`, `facade_index` |
| `DocumentIds_proofs` | its properties but `IndexAgrees`, and that `IdNamespace` is implemented, for all documents and plans | TLAPS |
| `CrossrefIndex_proofs` | `IndexAgrees`, for all documents and plans | TLAPS |
| `AstMerge` | the matching of each copy with the base, the merge of values and sequences | `ast_editing` |
| `AstPatch` | building and applying reversible patches | `ast_editing` |
| `AstEditing` | two writers: edits, a merge from both sides, a review of what it changed | `ast_editing` |
| `DocumentEdits_proofs` | ids of a session unique, never given again, handed on only to the characters they had and to those always, for every parser; nothing lost, brought back or reordered by a merge, the same for both writers, and patches that turn their own documents only, for all documents and edits | TLAPS |

The `MC...` modules give the constants of a module their small values.

A definition whose comment begins with *Slip* is not part of any specification. It is
the mistake a change of the code could make in the definition after it, and serves to
see that a property notices.

### 2.1 IncludeResolution

`frames` is the recursion of `expand_run` and `expand_child`: one record per document
being expanded, with its canonical id, the directives it still has, the position of the
directive that brought it (a block, inside inline text) and a mark: the length of the list of reported inclusions
when it was entered.
`calls`, `bytes` and `spent` are `resolver_calls`, `used_bytes` and the latch with the
total that set it; `deps` is the dependency list; `included` the list of reported inclusions; `report` abstracts the warnings to how many are
listed, which rules were seen, and how many were suppressed.

One action per outcome of `resolve_child`, in the order the code tests them: directives
refused before the resolver is asked (`RefuseUnread`, `RefuseDepth`, `RefuseSpent`,
`RefuseCalls`), answers that are no source (`ReadDenied`, `ReadNonText`), sources that
are refused uncharged (`ReadBinary`, `ReadOptionsInvalid`, `ReadCycle`), and sources that
are charged (`ReadOverBudget`, `ReadSelectionFails`, `ReadMalformed`, `Enter`).
`ChildDone`, `Merge` and `RejectBlockInInline` are the return from a child; `Finish` the
return of the pass. What a text contains is a choice: `Enter` picks any number of
directives up to a bound and any size. The resolver answers anything, differently each
time it is asked.

Two variables only observe: `obtained`, which targets were handed back, so that the
dependency list can be compared with what happened, and `includer`, which document brought
each inclusion.

### 2.2 IncludeReservations

An element is an id it wants, the document it came from, and whether it is in the tree.
The table counts claims per id with an owner, as `reserved_ids` does. Claims made
inside a frame are journalled; `Committed` hands a merged child's journal to the frame
around it, and `RejectInline` gives everything in it back. A claim on an id that belongs
to another document defers a rename: the element gets a placeholder, and `FinishPresent`
at the end gives it the name itself when nobody claims it any more, or the next free
suffix. Names are a base and an optional suffix, so that an author may have written what
a rename would choose.

### 2.3 IncludeFootnotes

Each frame has the labels of its own document and the label map it is filling; the root
has its definitions. A definition is known by the document that wrote it and the label it
had there (`<<document, label>>`), so a map says which definition a label leads to;
`bodies` has its literal directives and whether it was included from inside a note. Labels
are sequences of names and numbers: `<<note, 2>>` is `note-2`, whoever wrote it.
References remember the definition their author meant, which is what the properties
compare with what the maps say.

`BeginNotes`, `NextNote` and `EndNote` are the loop in `expand_child` that takes one body
out of the map, expands it, and puts it back; the root's loop is the same actions with an
empty map under it. `merge_footnotes` is a loop as well: `StartMerge` takes the child's
map, `InsertNote` inserts the foremost label that is left under its `Final` label and
notes the rename, and `Merge` renames the references in the child's blocks and in the
inserted bodies and puts the blocks in their place. The map under construction is
in `merge` until then, since nothing looks at the parent's map in between.

### 2.4 IncludeReport

The warnings are a sequence with a cap, an entry per rule beyond it, and a count of the
rest. `DeferRename` raises a warning and remembers its place. `FinishRenames` begins the
loop over the placeholders, of which each step is `Unsay` (not in the tree any more, or
its own id was free: the warning is to be removed) or `NameRename` (the name is put in the
warning); then `TakeOut` removes the places that were noted, from the back.

### 2.5 MigrateDirectory

One process per run, with the steps of `run`: existence check, walk (entry by entry),
staging directory, per entry the collision test, the `lstat` comparison and the open
with its second comparison, the report, the exclusive `mkdir`, off unix the `rmdir` that
follows it, and the rename. `unix` is chosen once and for all: it decides whether files
have identities and whether a rename replaces an empty directory. Others may swap an
entry of the source for any other file, link or nothing (`Swap`) and make something
under the output's name (`Appear`); a run may be killed before any step (`Kill`); what it
leaves is removed by hand (`Tidy`). Every system call of a run may fail, the removals of
its clean-up included: the `rmdir` of the claim where it is an error (line 769) and where
its error is ignored (771), and `remove_dir_all` (777), which may take any part of the
staging directory before it is refused (`Failed`). `refused` only observes which removals
a run was refused, so that `NothingLeft` can say that nothing else stays.

### 2.6 RenderBudget

`remaining`, `labelCost` and `entries` are the thread-locals; `guards` what each guard
found when its render began. `Begin` and `End` are the construction and the drop of the
guards, so any nesting of HTML, styled (Markdown, terminal) and plain renders is a
behaviour. The renderers differ in whether they charge a target they write in place of
its label, and only HTML has indexes. `ledger` is history: what each render on the stack
has published and refused. A step outside any render is the flattening of table cells.

### 2.7 NodeIdentity

`source`, `document`, `ids` and `next` are the fields of a snapshot; `Open` is
`parse_snapshot_with_identity` and `Reparse` the whole of `reparse` for a session with
identity: the splice, the parse, and `retain_node_identity`. The parser is a constant, any
function from texts to lists of nodes with spans and fingerprints, so nothing here depends
on the grammar. Characters have widths because changes are ranges of bytes and positions
count characters. `Batch` gives batches as they are after the stable sort, which are all
batches the code goes on with. `Untouched`, `Adjustment`, `Sole` and `Heirs` are the
loops that build and look up `old_keys` and `new_key_counts`; a fresh node is numbered
from the counter in document order (`NewIds`).

Two variables observe. `retired` collects every id that went out of use. `was` says of
every character which character of the text before it is, so that "this node is that
node" (`SameChars`) can be said without the shifted offsets the code compares.

### 2.8 DocumentIds

A document is its body and its notes, each a sequence of sites: headings, blocks and
inlines with an id of their own, widgets of extensions that ask for an id, citations,
entries of the references list, and places where an extension renders another document.
Ids are sequences of words and numbers, so an author may write what a suffix would make.

Each walk of the code is a job, and a job is a frame that goes from site to site:
`stamp` numbers the headings after a parse and leaves an empty slot for a heading of an
unused note, `gather` puts the slots of the parts into one list, `write` hands that list
back to the headings; `index` numbers them for cross-references, from fewer ids; `seed`
is `seed_document_ids`, which simulates the numbering of a render and collects the
citations, and turns into `render`, which writes. `Order` says in which order a job takes
the notes, `Explicit` which ids it knows of, `Stops` what it looks at: in these three the
jobs differ, and every hazard of this component comes from them. Each walk of the code
also lists by itself the containers it enters, and the lists differ. A site is therefore
`within` one of three: *open* stands for the text itself and for lists, quotes,
admonitions, figure groups, directives, divs and definition lists, which all walks enter;
*figure* for the quote of a figure, whose headings every walk takes but whose ids
`collect_explicit_ids` does not; *closed* for sections, line blocks, table cells, the
fallback of a block extension and the carrier of an extension, which the seeder and the
render enter and the index and the stamping pass by. A site in a closed container takes no
number in the index; the model gives it an empty slot there (`Number`), so that places can
be compared. `Plan` is the order of
jobs an entry point runs: `Ast` (parse, an extension, index, render), `Facade` (index,
stamp, render, and render again), `Extended` (the same with an extension between the
stamping and the render, so that the index is made again) and `Raw` (a decoded tree, never
stamped). The second render is the pass `render_document` runs when its placement marker stands in the
author's text. `Nest` puts an inner render on the stack, which is what
`DocumentIdsGuard` saves and restores.

Eight assumptions say what a parse yields. A document has a note at one place and takes
its number at its first reference (`IsDoc`: `footnote_defs` is a map). Before the stamping
the id of a heading is the author's (`Unstamped`, `heading_id_is_authored`). The uses of a
citation are numbered from 1 for each key, and the references list has one entry for each
key that is cited (`Annotated`, `citations.rs`). A render leaves its document as it is,
so that the renders of a plan come last (`RendersLast`). The slug of a heading is never
empty, for one without a letter or a digit is "s" (`HeadingsTitled`, `slugify_parse`). A
plan that has an index and then an extension has an index after it (`IndexRemade`: the
early index is used by the render only when there are no extensions, `parse.rs:1502-1520`).
The stamping comes before extensions have the tree (`StampedFirst`, `parse.rs:1463` and
1492). And a document that will be stamped has no heading in a closed container yet
(`Open`, in `Init`): the parse makes none, for sections and fallbacks come from a decoded
tree, cells are filled and carriers made by extensions, and the lines of a line block are
paragraphs. A decoded tree (`Raw`) may have them, and `Extend` makes them: it adds a heading to the
body, in the open or in a carrier, or puts a site that is there into one, as the extensions
for spoilers, details, tabs, code groups and list tables do.

The documents for which two walks take the headings in one order are those whose used
notes are referenced in the order of the source (`InOrder`). `Foretold` compares what was
written with numbers that were given out by another walk: the k-th heading of a part has
the k-th number of that part.

`to_html` installs the guard only when the source has a citation or a fenced container,
since nobody else asks for an id. Headings are stamped there anyway, so the model always
installs it.

### 2.9 AstMerge, AstPatch, AstEditing

`AstMerge` is the algorithm, operator by operator: `MatchSide` matches a copy with the
base in the four rounds of the code (equal blocks by rank, the one of its name, the one
of its kind, a longest common sequence of kinds), `MergeValue` and `MergeField` are the
three-way rule, `Settle` merges what is matched, `Edges` and `Sorted` order what stays,
and `Resolve` is a conflict, answered or left. A block is a kind, a hint (what the code
takes as its label, ref, name or id) and a text. Positions are those of the whole
documents throughout: the code compacts what is free into lists before the last round,
and the model walks over the cells of the two documents and passes by what is not free,
so that `Common` is the code's table and `Walk` its loop without a list in between. In the
same way a line of tokens is a set of places with their tokens (`Line`), and `Pairs` are
its windows of two. `AstPatch` builds the edits between two
documents and applies them forwards and backwards, each only to the document whose
fingerprint it carries.

`AstEditing` is the use of them: two writers edit copies of one document, the copies are
merged with either as "ours", a resolver answers every conflict alike, and the difference
to the first writer's copy is reviewed as a reversible patch - accepted, undone, accepted
again - while that writer may have gone on. `from` in a copy's entries observes which
base block each began as; the merge does not see it. Three assumptions: writers start
from, insert and write blocks and texts of the alphabet (`WritersAssumption`), a resolver
answers one of the three or nothing (`AnswersAssumption`), and what stands for nothing is
not a value (`AbsentApart`; the code has `Option`).

## 3. Runs

| Run | Bounds | Shows |
|---|---|---|
| `include_resolution` | 3 targets, depth 2, 3 calls, 2 bytes, sources of 1 or 2 bytes, cap of 1 warning, 2 directives per document | types and latches (`TypeOK`, `LatchExact`), no cycle (`AcyclicStack`), a rejected child's reports are the last ones (`ReportsNest`), the dependency list (`ResolvedWasRead`, `ResolvedStays`), a report that is never silent (`NeverSilent`), the end of the pass (`Terminates`), the abstract specification (`ImplementsBudget`) |
| `include_reservations` | a root and 2 included documents, nested or side by side, 2 elements each, one name with and without the suffix | `CountsAreLive`, `IdsApart`, `NameKept`, `NoMarkLeft`, `RejectRestores` |
| `include_footnotes` | 2 included documents, level 3, any subset of two labels each, directives in blocks and bodies | `BindsAsWritten`, `OwnKept` |
| `include_report` | cap of 2, three rules, six warnings | `ToldAsNamed`, `OthersSurvive` |
| `migrate_directory` | 2 runs, 3 entries of which two have one output, 1 change by others, any kill, any removal refused; unix and not | `PublishedWhole`, `NothingLeft`, `SameFile`, `ForeignKept` |
| `render_budget` | 2 nested renders of any kind, 2 labels, budgets of the floor and above it | `WithinBudget`, `IndexWithinBudget`, `RefusedForGood`, `SpentForGood` |
| `node_identity` | texts of up to 3 characters (two letters, one of them of 2 bytes, a break, a pair of twins), batches of up to 2 changes with up to 1 character each, 8 ids | ids unique and never given again (`IdsForGood`), handed on only to the very same text (`KeptUntouched`) and always when nothing else could be meant (`UntouchedKept`) |
| `document_ids` | bodies of up to 3 sites that contend for `a` and `a-2`, up to 2 notes in either order of source and of reference, one citation key with up to 2 uses, up to 3 sites in open, figure and closed containers, 1 heading added by an extension or 1 site put into a carrier, 1 nested render, 1 retried pass, four orders of jobs | ids handed out are apart (`HandedApart`), and so is everything a render writes (`ShownApart`); the seeder foretells the pass (`SeedForetells`), the index every heading it can see, unless it gave one an id it overlooks (`IndexAgrees`), a retried pass writes what the first did (`PassesAgree`), and the registry implements `IdNamespace` (`NamespaceImplemented`) |
| `ast_editing` | 2 documents of 3 blocks, every 3 edits of the two copies, every answer, 2 steps of review of what up to 2 edits gave | nothing is lost (`NothingLost`) or comes back (`NothingBack`) without a conflict, the order is a writer's (`OrderKept`), both writers get the same (`WritersAgree`), a patch accepted on the copy gives the merge, undone on the merge the copy, and changes nothing else (`Turns`) |
| `footnote_lost`, `render_empty`, `facade_index` | as above | a disagreement each (section 5) |

The bounds are the smallest at which the cases happen. Depth 2 and 3 targets give a
cycle through another document and a directive after a return; a byte budget of 2 with
sources of 1 and 2 gives totals below, at and above it; 3 calls let either limit be met
first. Two included documents are enough for a collision between two inclusions,
one with the root, and a rejected document that had merged another. Two runs and one
change by others give every race around the claim. The sizes of `RenderBudget` are near
the real floor of one million so that two or three charges spend it. Two changes around,
inside, at the border of and across nodes of a text of three characters give every case
of the partition, and eight ids allow up to five edits. The parser of `node_identity` has
what makes identity hard: nodes with one span (a paragraph and its text), twins nothing
tells apart, nodes without text and nodes without a position. Three sites contending for
two ids, one of which is the other's suffix, meet every branch of the allocation (the bare
base, the first suffix, a suffix the author took, a base that is itself a suffix); two
notes are the fewest whose order by reference, by label and by source can differ. Three
edits of three blocks give every pair of edits that meet in one block or one gap and a
third that moves what they meet in; a table of pairings of at most 3 (1,000,000 in the
code) lets the merge fall back to its cheaper matching.

**Fairness.** An include pass is one thread of straight-line code, so `Next` is weakly
fair: the code never stops in the middle, and every answer of the resolver is an action
(a resolver that never returns is outside the model). A migration run is weakly fair in
its own steps, and `Kill` is how it stops; nothing is assumed of the others. No other
specification has fairness. `Done` and `Ended` are the stuttering of a finished system,
so that deadlock is checked everywhere.

## 4. Proofs

For every value of the constants, subject only to the assumptions named in the modules
(limits and sizes are natural numbers, denials are not the string `"none"`, ...), TLAPS
proves:

*`IncludeResolution_proofs`* - `TypeCorrect`, `NoCycle`, `WorkIsBounded`, `LatchIsExact`,
`ResolvedIsRead`, `NeverDowngraded`, `NothingIsSilent`, `ReportsAreNested`, and
`Refinement`: the pass implements `IncludeBudget`; so every property of
`include_resolution` but its liveness. The inductive invariant `IInv` is the conjunction of the types, the
frames (`FramesInv`), what was read (`ReadingInv`) and the report. The parts lean on
each other: the call latch is exact only because the calls never pass their limit (it is
set when they are at least the limit), the bound on the depth and the cycle guard need
the frames to be well formed, and a rejection truncates the list of inclusions to the mark
of a frame, so `Marks` says that every mark is a place in that list and that a child's is no
earlier than its parent's; without it the list would lose its type when a child is
rejected after its siblings. Every action preserves the
three parts by one of three lemmas: a refusal consumes a directive and raises a warning,
an answer that is not charged keeps what was read, and a charged one changes the
counters in step. `ResolvedIsRead` and `NeverDowngraded` follow from one lemma on `Noted`,
the only operation on the dependency list. `NothingIsSilent` counts: a raised warning adds
one to those shown or to those suppressed (`RaiseCounts`). `ReportsAreNested` has an
invariant of its own, `NestInv`: documents are numbered as they are entered, above the
document that includes them (`Numbered`), and the mark of each one being expanded splits
the report into lower and higher numbers (`Split`). A merged child is inserted at its mark
and so stays in front of its children; a rejected one is cut there, and nothing before the
mark can have been reached through it.

*`RenderBudget_proofs`* - `TypeCorrect`, `PublishedIsBounded`, `IndexIsBounded`,
`RejectionIsFinal`, `RefusalIsFinal`. The invariant is about one render at a time:
`Within` says what is true of what it did, what is left to it and its labels' costs, and
`IInv` that it is true of every render on the stack, reading what is left from the
thread-locals for the running one and from the guards for those that wait. A spend
changes the running render only (`RunningStep`); `Begin` and `End` move values between the
thread-locals and a guard and change no render's values. `RefusedForGood` needs
`Measured`: a label measured at nothing has no text and its expansion does not fit any
more. Without it a label might be refused whose first cost was zero, and would not be
rejected the next time. That a first cost can be zero at all is the finding of
`render_empty`. A render that is not HTML installs no index guard, so the invariant also
says that it ends with the index budget it began with.

*`DocumentEdits_proofs`*, ids - `IdsAreForGood`: `IdsForGood` holds whatever the parser is and
however often the text is edited. It is inductive with the types. The argument is
in two lemmas: inheritance is one to one in both directions (`HeirsOneToOne`), because
only keys that one node has are used on either side, and the number of fresh nodes before
a fresh node grows strictly along the document (`FreshCount`), so fresh ids are distinct;
they start at the counter, which is above every id ever given. The uniqueness part is what
`validate_identity_records` checks at the end of `retain_node_identity`, so that check
never fails there. The bound on the length of texts is a constant and the theorem holds for
all its values.

*`DocumentEdits_proofs`*, offsets - `KeptUntouchedHolds`, `UntouchedKeptHolds`: what an edit
hands an id on to, whatever the parser makes of the two texts. The code compares bytes it
computes with the shift of the changes before a node; the properties speak of characters
(`was`). The lemmas in between, from the bottom:

- *Bytes.* Characters are at least one byte wide, so the offsets grow (`BytesGrow`) and an
  offset names one place (`CharsBack`, `SameByte`); the same characters are as many bytes
  wherever they are (`BytesOn`).
- *Gaps.* Between the changes of an accepted batch are gaps in order (`BatchTakesTurns`,
  `GapsApart`). The edited text consists of these gaps and of what is put in between
  (`SplicedSpread`, `GapOrPutIn`), and a gap is as many bytes further on as the adjustment
  says (`BytesMoved`).
- *One way.* `is_touched` looks at one change only, the first that does not end before the
  node. That is enough, because the changes are in order: what it calls untouched is in a
  gap (`UntouchedInGap`). Its key is then where its text is now (`UntouchedLands`), and equal
  keys are equal spans. Hence a node inherits the id of the very same characters
  (`HeirsHaveSameChars`).
- *The other way.* Two characters that were neighbours and still are belong to one gap,
  because a change between them took something out or put something in
  (`NeighboursInGap`; this is why a change of nothing by nothing is not in `Batch`). So text
  that stayed together is in one gap (`StayedInGap`), is not touched and has its key there
  (`StayedUntouched`). If no other node has the span and the print, the keys are unique
  on both sides (`SoleBefore`, `SoleAfter`) and the id is handed on (`SameCharsAreHeirs`).

The invariant is small: the types, `IdsForGood`, and that the tree is the parser's of the
source (`ParsedInv`). Of the parser only `ParseAssumption` is used: spans within the source
and the right way round.

*`DocumentEdits_proofs`*, merge - `NothingLostHolds`, `NothingBackHolds`, `OrderKeptHolds`,
`WritersAgreeHolds`, `TurnsHolds`, so every property of `ast_editing`: whatever document
the writers start from, whatever they insert and rewrite and however often. The lemmas, from
the bottom:

- *Matching.* Each round only pairs positions that are free on both sides, so a position has
  one partner at most (`SideMatching`). For the ranks this is because they grow along the
  copies of a block (`RankGrows`), for names because each is the only one, for the walk
  because it goes on in both documents after it took a cell (`WalkOnePartner`). `Walk` is a
  recursive function over cells; that it exists and has its equation is shown by induction
  on the cells still ahead (`WalkExists`), which TLAPS can do when the induction is written
  as the least element of a set of numbers (`LeastExists`, `Climb`). Of the table of common
  lengths nothing is needed: a matching results whatever turns the walk takes, so the result
  also covers the fallback for large documents.
- *Values.* A merge without conflicts is the change of the one side that changed something,
  at each level (`FieldSettled`, `BlockSettled`, `CleanMerge`).
- *Sequences.* Without a conflict the order has every token of both lines (`CleanSequence`),
  a token stands for one block (`OurToken`, `TheirToken`), so the blocks of the result are
  those that the tokens name (`ShownTokens`), and what is new in a copy is in its line or in
  the block of the base it is matched with (`NewStays`). How the tokens are sorted does not
  matter for these two properties.
- *Order.* `Sorted` is a recursive function over sets of tokens; that it exists and what it
  yields is again an induction over numbers, here over how many tokens are left (`SortExists`,
  `SortedAs`): tokens once each, every token after those with an edge to it, and all of them
  unless some set of tokens is stuck, each waiting for another of them (`SortedWhole`). A line whose
  neighbours are all edges is therefore kept as a whole (`ChainKept`). `OrderKept` follows by
  cases: a copy that moved old blocks has all its neighbours as edges; one that did not has
  its old blocks in the order of the base, and if no copy moved any, the base's neighbours
  are edges. A block that every document has once is matched, has one token, and is on both
  lines with it (`OncePlaced`).
- *Two writers.* The writers call their additions differently: `<<1, j>>` of one is `<<2, j>>`
  of the other, or `<<1, k>>` when the two coincide. With this renaming (`Turned`), which is
  one to one because the n-th of one side goes with the n-th of the other only (`CoincideOne`),
  lines, edges and stuck sets of the one merge are those of the other (`EdgesTurned`,
  `StuckTurned`), base blocks are settled alike (`SettledMirrored`), and each block is as often
  in the one result as in the other (`CopiesAtMost`, used in both directions). The order
  may differ, since the least ready token depends on the names; the property counts
  blocks for that reason. That an answer leaves no conflict also makes the invariant `AInv`
  inductive: an answered merge yields a document (`Answered`), so no later merge replaces it
  unanswered.
- *Copies.* The invariant `EInv` says that a copy's entries have distinct origins (`Traced`,
  kept by every edit) and that the result is the merge of the two copies as they are while
  nobody answered. `NothingBack` needs in addition that a block which stands only where the
  base has it is matched with an equal one (`UneditedMatched`): there are as many ranks in
  the base as in the copy, because the origins are distinct.
- *Patches.* `Apply` is a fold of the library, a recursive function over sets of positions;
  that it exists and goes through one sequence of documents is an induction over numbers
  (`FoldExists`, `ApplyRun`, `RunOnce`), so two lists of edits one after the other do what
  they do joined (`ApplyJoin`). The edits `build` makes of a field give that field
  (`FieldApplied`), those of a block the block (`BlockApplied`), and so those of a document
  the document, by induction over its blocks, whose number did not change; otherwise one
  edit replaces them all (`BuildApplied`). None of these edits is refused on the document
  they were made for, and what is applied there is a document and so no refusal:
  `PatchTurns` says what a review gives in every case. `Turns` needs in addition that the patch under review stays the one
  between the writer's copy and the merge: a merge is proposed only without conflicts, and
  such a merge is final (`PatchStands`, by `Answered`).

*`IncludeReservations_proofs`* - `TypeCorrect`, `CountsHold`, `IdsStayApart`,
`NamesKept`, `NoMarkIsLeft`, `RejectionRestores`: every property of `include_reservations`,
for any documents, any nesting and any bounds. The central notion is `Live(table, S)`: the
table counts, for every id, the elements of `S` that carry it, and names their owner. A set
of elements has one live table (`LiveUnique`), so a rejection restores the table if the
tables before and after are live for the same elements. That the table stays live under
claims, releases and merges is lemma by lemma (`LiveAdd`, `LiveRemove`, `LiveRelabelled`);
for a rejection (`LiveGive`) it takes two facts about a journal, which make the invariant
inductive: it has at least as many copies of an id as elements at its level carry it, so
they all go, and none of an id that an element of an enclosing document carries, so those
all stay. The second holds because an element's owner is the document at its level or one
merged into it, and owners grow with the level (`Owners`, `Places`). The first is only "at
least": what a merged include lost again stays in the journal. While an inline child is
expanded, the table before it is live for the elements below (`Expansion`). The names at
the end need no more than that the placeholders before `next` are gone and that a taken name stays taken
(`Naming`).

*`IncludeMerge_proofs`*, the notes - `TypeCorrect`, `OwnKeptHolds`, `BindsAsWrittenHolds`: both
properties of `include_footnotes`, for any labels, any documents and any nesting. A
property about one document is not inductive, because a merge changes several things at
once: a map, the references in what is merged, and where they stand. The invariant adds
that the documents under way hold definitions of their own (`Apart`), so a reference that
stands in a note of one document stands in no other, and a merge touches two documents
only; that a document between two notes is the topmost (`Shape`), so the document that
receives a merge is either still in its blocks or inside one note; and, for a merge under
way (`Merging`), that its map extends the parent's and that the new label of each
definition inserted so far leads to that definition. The last is inductive because
`Final` is a label nobody has (`FinalIsFree`, by the pigeonhole argument of `NextFree`).
When the parent is inside a note, what the merge adds is nested, which is why the
property has to except notes that were included from inside a note: `EndNote` puts the
parent's definition back over whatever came under its label (`footnote_lost`).

*`IncludeMerge_proofs`*, the report - `ReportTypeCorrect`, `RenamesToldAsNamed`, `OtherRulesSurvive`: both
properties of `include_report`, for any rules, any cap and any number of warnings. What is
carried along is the correspondence of placeholders and warnings: a place kept for a
placeholder still to be decided is the place of its warning (`Marked`, `PlacesKept`), and the
places to be taken out grow along the list and lie before those still kept (`Doomed`). So
the one taken out next is above all others, and removing it moves none of them; from the
front it would move them all.

*`MigrateDirectory_proofs`* - `TypeCorrect`, `OutputIsWhole`, `StagedIsSeen`,
`NothingIsLeft`, `ForeignStays`: every property of `migrate_directory`, for any number of
runs, entries and changes by others. The invariant follows one run. While it builds
(`Building`), its files cover the entries it has passed; `Fresh` makes the next name new,
so nothing built is overwritten. `Faithful` says each file is the one the walk saw. What
stands under the output's name as this run's (`Published`) is its empty claim until the
rename, after a failure only if its removal was refused, and everything it built
afterwards. Two runs do not disturb each other because a
rename meets the run's own claim or, where it replaces an empty directory, something of
somebody else's that is not empty, and then fails.

*`DocumentIds_proofs`* - `TypeCorrect`, `HandedApartHolds`, `SeedForetellsHolds`,
`PassesAgreeHolds`, `ShownApartHolds`, and `ImplementsNamespace`: the
jobs implement `IdNamespace`, with the ids in use and handed out by the renders under way
as the refinement mapping. With `IndexAgreesHolds` (*`CrossrefIndex_proofs`*, which goes on
from there) that is every property of `document_ids`, for any documents, any nesting and
any plan within the assumptions above. They stand on one another:

- The one numeric fact is `NextFreeIsFree`: among the first `1 + Cardinality(taken)`
  suffixes one is free, because two suffixes of one base are two ids; so the unbounded
  loop of `unique_id` ends and the bounded search of the model finds what it finds.
- `HandedApart` is per frame: what a render handed out, and what it wrote with an author's
  or a stamped id, is in use in its registry, and the two do not meet. The seeder
  provides it for the ids of the document, `Unique` keeps it.
- `SeedForetells` compares two walks, so the invariant keeps a trace of the first: for
  each used part the counts before every heading, such that each heading's number follows
  from the counts before it. The render, part by part, is at a heading of the trace with
  counts that agree with the trace's on every id that matters; they may differ in the ids
  that headings have already, which a render that meets a stamped heading does not count.
  Where the notes are used in the order of the source, the part after a used part is the
  same in both walks, and a trace ends where the next begins.
- `PassesAgree` needs no trace of ids: a job has one next step (`MovesOnce`), so
  a seeding and a pass over a document are one sequence of frames (`OneRun`). The invariant says that the pass under way is at some step of that sequence and that every
  recorded pass is its end. Nested renders change nothing in it, whatever they render.
- `ShownApart` puts every element written down to its place in the document. An
  author's ids are `authored`; a stamped or numbered heading has an id that was free among
  the headings and is none of the author's; what was handed out is new in the registry,
  which knows every number the seeder foretold. For citations it takes counting: the
  seeder finds as many uses of a key as its highest number says, so every name a use wants
  has been reserved when the use is written (`Given` never falls back to the name), and
  two uses have two names. That stamps are fresh is the longest part: the numbering avoids
  the author's ids, the list gathered by label hands each heading its own number back (it
  is the concatenation of the parts' numbers in the order in which the write walks the
  parts), and the stamps of used parts are therefore distinct.
- `IndexAgrees` compares three walks at different times: an index may be made before the
  stamping, the stamping changes the document, and an extension may change it again. A
  document and a set of ids to skip have one numbering (`NumberedOnce`, on the traces of
  `SeedForetells`), so `Truth` can speak of *the* numbers of a document. The index skips
  fewer ids and passes by the headings of closed containers, so its counts are lower, but
  whatever the seeder counted further is an id in use (`Near`). While no number it gives is
  an id it overlooks, the next number is the seeder's (`OpenNear`), a heading it passes by
  keeps the two near (`ClosedNear`), and so on through the parts (`PartNear`, `IndexNear`);
  hence it clashes somewhere or finds every heading that is not closed (`Truth`). Stamping
  changes neither (`StampingEnds`): at every moment of the `write` job its document is the
  old one with the numbers made for it at the headings passed (`Restamping`), a stamped
  heading counts as having that id, no stamp is an id the author wrote, and no heading is
  closed yet, so what the index overlooks of the new document it overlooked of the old. It
  is here that no slug may be empty: an empty number would be no stamp. An extension does change the numbers, so
  the invariant says nothing of an index that is still to be made again (`Pending`), and that
  every extension to come is followed by one (`Renewed`). Every recorded pass is that of a
  complete render of the present document (`PassesWhole`), and `WholeAgrees` compares it with
  the index.

What is only model-checked: liveness (`Terminates`). It and anything about ENABLED is out of
the prover's reach. Of recursive functions only what an induction over numbers shows is
used: that the walk of the merge pairs a position once, what its sorting lists, what edits
applied one after the other give, and what offsets add up to; of the table of common lengths
no theorem says anything. None of the modules declares a RECURSIVE operator.

## 5. Where code and documentation disagree

Each of these has a run that ends in a counterexample:

- `footnote_lost`: a note of a document included from inside a note's body is dropped
  when its label is taken, without the rename `docs/includes.md` promises.
- `render_empty`: a label that is only an abbreviation, first met after the budget was
  spent elsewhere, is written as an empty label, the outcome `label_rejected` exists to
  prevent.
- `facade_index`: the source-to-HTML facade builds the index of headings that resolves
  cross-references before the ids are stamped, and from the explicit ids of headings and
  paragraphs only. With an id on an inline that looks like a suffix, the index and the
  rendered heading differ, which `parse/inline_resolution.rs:404` says they never do.

Noticed while modelling, and not run:

- removing the warning of a rename that came to nothing can remove the only listed warning
  of its rule (`includes.rs:1998`);
- flattening table cells for a profile spends the thread's budget outside a render;
  nothing restores it;
- where the notes are referenced in another order than the source has them, the headings
  of a document that was not stamped are seeded in one order and rendered in the other, so
  a generated id can equal a heading's although `document_ids.rs:14` says it never can. `ShownApart`
  and `SeedForetells` are therefore stated for documents whose notes are in one order or
  whose headings have ids. A heading an extension adds to a stamped document is numbered
  by the index and the renderer alone;
- the extensions for the table of contents, permalinks and heading numbers number headings
  by a `next_id` of their own on a document that was not stamped, and the ids `fn1` and
  `fnref1` of notes are in nobody's namespace;
- a resolver that answers a deletion against an edit with the deleting side's or the base's
  value makes that side count as having moved blocks, so the merge may report a
  `ConcurrentSequenceEdit` although nobody moved anything (`ast_merge.rs`, `Edges`);
- a migration killed between the claim and the rename leaves an empty directory under the
  output's name (`migrate_directory.rs:766`), and the next run refuses to replace it; so
  does one whose `rmdir` of the claim is refused. The errors of two of its three removals
  are ignored (lines 771 and 777), so the user is told what failed first and not what is
  left;
- a cross-reference to a heading in a section, a table cell, the fallback of a block
  extension or the carrier of an extension (spoilers, details, tabs, list tables) is never
  resolved: the index does not enter them (`parse/inline_resolution.rs:387-475`), though the
  heading is numbered and rendered with an id. As the index does not skip those ids either,
  it may give one of them to another heading, and from there on the two may disagree;
  `IndexAgrees` says that nothing else makes them;
- two edits of clones of one snapshot give one id to different nodes of one session
  (`ast_sidecars.rs:241`);

- an entry of the dependency list that was resolved may later carry a denial too
  (`includes.rs:1430`; the field's comment at 365 rules it out);
- sources refused for a NUL, their table options or as a cycle are handed back and not
  charged, though `charged_bytes` (line 384) is described as the size of everything handed
  back; a source with a NUL is also noted as not read (lines 355 and 1618);
- `expand_child` walks the labels of the merged map, so a directive that stayed literal in
  a merged note is resolved again by the document it was merged into; the root avoids it
  (line 4090);
- off unix a directory somebody else makes between the `rmdir` and the rename is removed
  with the claim if it is empty (`migrate_directory.rs:771`), and files have no identity,
  so the comparison of `open_unchanged` compares nothing. `ForeignKept` and `SameFile` are
  therefore stated for unix.

## 6. What is not modelled

- The parser, the renderers' markup, the Carve writer, the importers, the ProseMirror
  bridge, lint and tables: pure functions of one text or tree, large and grammatical. The
  repository tests them with a conformance corpus; a small instance of a grammar would add
  little. What they yield is a choice or a payload here.
- In the include pass: what a source contains, regions and options other than that they
  may be refused, positions of warnings, references that follow a renamed id, and the id
  of a heading that is derived again after an inclusion changed its text. The four views of
  the pass are separate modules; what connects them is that a child is merged or rejected
  as a whole, which each module chooses for itself.
- In the migration: nested directories, the rewriting of links, loss of power (only the
  process is killed), and filesystems where `mkdir` is not exclusive.
- In a parse session: the fast path for a single paragraph (the tree is whatever the parser
  gives for the edited text), batches that are refused, changes that replace nothing by
  nothing (inside a node they retire its id), the sidecars for annotations and provenance, and a snapshot
  that is cloned: two edits of the copies number their fresh nodes alike in one session, so
  ids are unique along one line of snapshots only.
- Source patches apply an edit by byte ranges when the text has the length and fingerprint
  it was made for; the precondition is the one of `AstPatch`, the rest is a function of one
  text. Regions, the include walk and the streaming render are functions of one text as
  well; `FileSystemResolver` is two system calls whose answers `IncludeResolution` takes as
  arbitrary.
- In the ids: the text of a slug, ids of notes and of table-of-contents entries, the
  experimental event route, and citations whose keys are resolved by a bibliography.
- In the merge: values nested deeper than the fields of a block, runs of text that are
  joined before they are compared, positions, answers that put a value of their own, and
  documents whose fingerprints collide.
- In the budgets: the table of contents, which has a budget of its own, and lengths whose
  multiple does not fit a machine word (the multiplication saturates).

## 7. Plan

Modelled so far, in the order of importance: the include pass in its four views, the
migration, the budgets, node identity, the ids of a document, merges and patches. What is
left, in this order:

1. A composition of `IncludeResolution` with the ids and the notes, so that a rejection is
   one step in all of them, with the ids of headings that are derived again after an
   inclusion (`includes.rs:3985`, a hazard no property covers).
2. The paragraph fast path of `reparse`: a model of the parse of literal paragraphs with
   positions, and that editing one paragraph gives the tree of a full parse.
3. `Regions`: extraction over a sequence of lines, against a definition that says which
   lines belong to a region.
