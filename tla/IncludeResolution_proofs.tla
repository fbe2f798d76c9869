----------------------- MODULE IncludeResolution_proofs -----------------------
(***************************************************************************)
(* What IncludeResolution keeps for every resolver, document and limit.    *)
(* The inductive invariant is the type invariant, the bounds on the work   *)
(* done and the order of the latch; the cycle guard needs only the types.  *)
(* That reports nest needs more: documents are numbered as they are        *)
(* entered, and the mark of each one being expanded splits the report into *)
(* lower and higher numbers, so cutting or inserting there keeps both the  *)
(* order and the includers.                                                *)
(***************************************************************************)
EXTENDS IncludeResolution, SequenceTheorems, TLAPS

USE TargetAssumption, SizeAssumption, DenialAssumption, LimitAssumption

\* A report stays a report when a warning is raised (warn_with_position).
LEMMA RaiseType ==
    ASSUME NEW log \in [shown: Nat, rules: SUBSET Rule, suppressed: Nat],
           NEW rule \in Rule
    PROVE  Raise(log, rule) \in [shown: Nat, rules: SUBSET Rule, suppressed: Nat]
<1>1. log.shown \in Nat /\ log.rules \in SUBSET Rule /\ log.suppressed \in Nat
  OBVIOUS
<1>2. log.rules \cup {rule} \in SUBSET Rule
  BY <1>1
<1>3. [log EXCEPT !.suppressed = @ + 1] \in [shown: Nat, rules: SUBSET Rule, suppressed: Nat]
  BY <1>1
<1>4. [shown |-> log.shown + 1, rules |-> log.rules \cup {rule},
       suppressed |-> log.suppressed] \in [shown: Nat, rules: SUBSET Rule, suppressed: Nat]
  BY <1>1, <1>2
<1>5. QED
  BY <1>3, <1>4 DEF Raise

\* The warning of a malformed directive, if it has one, keeps the report a report.
LEMMA RaiseForType ==
    ASSUME NEW log \in [shown: Nat, rules: SUBSET Rule, suppressed: Nat],
           NEW shape \in Shape
    PROVE  RaiseFor(log, shape) \in [shown: Nat, rules: SUBSET Rule, suppressed: Nat]
BY RaiseType DEF RaiseFor, Shape, Rule, WellFormed

Deps(d) ==
    /\ DOMAIN d \subseteq Target
    /\ \A t \in DOMAIN d : d[t] \in [resolved: BOOLEAN, denial: {"none"} \cup Denial]

\* Noting a target keeps the dependency list one (note_denied).
LEMMA NotedType ==
    ASSUME Deps(deps), NEW t \in Target, NEW resolved \in BOOLEAN,
           NEW denial \in {"none"} \cup Denial
    PROVE  Deps(Noted(t, resolved, denial))
BY DEF Deps, Noted

-----------------------------------------------------------------------------
\* The mark of a frame is a place in the report, and a child's is no earlier
\* than its parent's: truncating to it keeps what came before the parent.
Marks ==
    /\ \A i \in 1..Len(frames) : frames[i].mark <= Len(included)
    /\ \A i, j \in 1..Len(frames) : i <= j => frames[i].mark <= frames[j].mark

FramesInv ==
    /\ frames \in Seq(Frame)
    /\ included \in Seq(Nat)
    /\ includer \in Seq(Nat)
    /\ Depth <= MaxDepth
    /\ AcyclicStack
    /\ Marks

ReadingInv ==
    /\ calls \in Nat /\ bytes \in Nat
    /\ spent \in {"none"} \cup SpentRule
    /\ Deps(deps)
    /\ obtained \subseteq Target
    /\ calls <= MaxCalls
    /\ LatchExact

ReportInv == report \in [shown: Nat, rules: SUBSET Rule, suppressed: Nat]

\* The inductive invariant: types, the bounds, the latch, the stack and the marks.
IInv == FramesInv /\ ReadingInv /\ ReportInv

\* What IInv gives: the types and the checked safety invariants.
LEMMA IInvConsequences ==
    IInv => TypeOK /\ WorkBounded /\ LatchExact /\ AcyclicStack
BY DEF IInv, FramesInv, ReadingInv, ReportInv, TypeOK, WorkBounded, Deps

\* Every frame on the stack is one, with a mark that is a number.
LEMMA FrameTypes ==
    ASSUME FramesInv
    PROVE  \A i \in 1..Len(frames) : frames[i] \in Frame /\ frames[i].mark \in Nat
<1>1. \A i \in 1..Len(frames) : frames[i] \in Frame
  BY DEF FramesInv
<1>2. \A f \in Frame : f.mark \in Nat
  BY DEF Frame
<1>3. QED  BY <1>1, <1>2

\* Popping a frame or passing a directive keeps the stack acyclic, bounded and marked.
LEMMA ConsumedFrames ==
    ASSUME FramesInv, AtDirective
    PROVE  /\ Consumed \in Seq(Frame)
           /\ Len(Consumed) = Len(frames)
           /\ Len(frames) \in Nat \ {0}
           /\ Top \in Frame
           /\ \A i \in 1..Len(frames) : /\ Consumed[i].file = frames[i].file
                                        /\ Consumed[i].mark = frames[i].mark
                                        /\ Consumed[i].serial = frames[i].serial
<1>0. frames \in Seq(Frame)
  BY DEF FramesInv
<1>1. Len(frames) \in Nat \ {0} /\ Top \in Frame
  BY <1>0 DEF AtDirective, Top
<1>2. [Top EXCEPT !.left = @ - 1] \in Frame
  BY <1>1 DEF AtDirective, Frame
<1>3. Consumed = [frames EXCEPT ![Len(frames)] = [Top EXCEPT !.left = @ - 1]]
  BY DEF Consumed, Top
<1>5. Consumed \in Seq(Frame) /\ Len(Consumed) = Len(frames)
  BY <1>0, <1>1, <1>2, <1>3
<1>6. ASSUME NEW i \in 1..Len(frames)
      PROVE  /\ Consumed[i].file = frames[i].file /\ Consumed[i].mark = frames[i].mark
             /\ Consumed[i].serial = frames[i].serial
  <2>1. CASE i = Len(frames)
    BY <1>0, <1>1, <1>3, <2>1 DEF Top, Frame
  <2>2. CASE i # Len(frames)
    BY <1>0, <1>1, <1>3, <2>2
  <2>3. QED  BY <2>1, <2>2
<1>7. QED
  BY <1>1, <1>5, <1>6

\* A directive that stays literal: the stack keeps its shape (expand_run).
LEMMA ConsumedKeepsFrames ==
    ASSUME FramesInv, AtDirective, frames' = Consumed, UNCHANGED inclusion
    PROVE  FramesInv'
<1>1. Len(frames') = Len(frames) /\ frames' \in Seq(Frame)
  BY ConsumedFrames DEF FramesInv
<1>2. \A i \in 1..Len(frames) : frames'[i].file = frames[i].file /\ frames'[i].mark = frames[i].mark
  BY ConsumedFrames DEF FramesInv
<1>3. AcyclicStack'
  BY <1>1, <1>2 DEF FramesInv, AcyclicStack
<1>4. Marks'
  BY <1>1, <1>2 DEF FramesInv, Marks, inclusion
<1>5. QED
  BY <1>1, <1>3, <1>4 DEF FramesInv, Depth, inclusion

\* A child that is not on the stack is entered below the depth limit (expand_child).
LEMMA EnterKeepsFrames ==
    ASSUME FramesInv, NEW t \in Target, NEW size \in Size, NEW position \in Position,
           NEW n \in 0..MaxDirectives, Enter(t, size, position, n)
    PROVE  FramesInv'
<1> DEFINE new == [file |-> t, left |-> n, serial |-> Len(includer) + 1,
                   position |-> position, mark |-> Len(included)]
<1>0. AtDirective /\ Depth < MaxDepth /\ ~OnStack(t)
  BY DEF Enter, Charge, Ask
<1>1. new \in Frame
  BY DEF Frame, FramesInv
<1>2. frames' = Append(Consumed, new) /\ included' = included
        /\ includer' = Append(includer, Top.serial)
  BY DEF Enter
<1>3. /\ frames' \in Seq(Frame)
      /\ Len(frames') = Len(frames) + 1
      /\ frames'[Len(frames) + 1] = new
      /\ \A i \in 1..Len(frames) : frames'[i] = Consumed[i]
  <2> HIDE DEF new
  <2>1. QED  BY <1>0, <1>1, <1>2, ConsumedFrames DEF FramesInv
<1>4. \A i \in 1..Len(frames) : frames'[i].file = frames[i].file /\ frames'[i].mark = frames[i].mark
  BY <1>0, <1>3, ConsumedFrames
<1>5. includer' \in Seq(Nat)
  BY <1>0, <1>2, ConsumedFrames DEF FramesInv, Frame
<1>6. Depth' <= MaxDepth
  BY <1>0, <1>3, ConsumedFrames DEF Depth
<1>7. AcyclicStack'
  <2>1. \A i, j \in 1..Len(frames) : i # j => frames'[i].file # frames'[j].file
    BY <1>4 DEF FramesInv, AcyclicStack
  <2>2. \A i \in 1..Len(frames) : frames[i].file # t
    BY <1>0 DEF OnStack
  <2>3. frames'[Len(frames) + 1].file = t
    BY <1>3
  <2>4. \A i \in 1..Len(frames) : frames'[i].file # frames'[Len(frames) + 1].file
    BY <1>4, <2>2, <2>3
  <2>5. ASSUME NEW i \in 1..Len(frames'), NEW j \in 1..Len(frames'), i # j
        PROVE  frames'[i].file # frames'[j].file
    <3>1. Len(frames) \in Nat /\ Len(frames') = Len(frames) + 1
      BY <1>0, <1>3, ConsumedFrames
    <3>2. CASE i \in 1..Len(frames) /\ j \in 1..Len(frames)
      BY <2>1, <2>5, <3>2
    <3>3. CASE i = Len(frames) + 1 /\ j \in 1..Len(frames)
      BY <2>4, <3>3
    <3>4. CASE j = Len(frames) + 1 /\ i \in 1..Len(frames)
      BY <2>4, <3>4
    <3>5. QED  BY <2>5, <3>1, <3>2, <3>3, <3>4
  <2>6. QED
    BY <2>5 DEF AcyclicStack
<1>8. Marks'
  <2>1. \A i \in 1..Len(frames) : frames'[i].mark <= Len(included) /\ frames'[i].mark \in Nat
    BY <1>4, FrameTypes DEF FramesInv, Marks
  <2>2. \A i, j \in 1..Len(frames) : i <= j => frames'[i].mark <= frames'[j].mark
    BY <1>3, <1>4 DEF FramesInv, Marks
  <2>3. frames'[Len(frames) + 1].mark = Len(included) /\ Len(included) \in Nat
    BY <1>3 DEF FramesInv
  <2>4. QED
    BY <1>0, <1>2, <1>3, <2>1, <2>2, <2>3, ConsumedFrames DEF Marks
<1>9. QED
  BY <1>2, <1>3, <1>5, <1>6, <1>7, <1>8 DEF FramesInv

\* Taking the last document off the stack leaves the others as they were.
LEMMA PoppedFrames ==
    ASSUME FramesInv, ChildDone
    PROVE  /\ Popped \in Seq(Frame)
           /\ Len(Popped) = Len(frames) - 1
           /\ Len(frames) \in Nat /\ Len(frames) > 1
           /\ Top \in Frame /\ Top.mark \in 0..Len(included)
           /\ \A i \in 1..(Len(frames) - 1) :
                Popped[i] = frames[i] /\ Popped[i].mark \in Nat /\ Popped[i].mark <= Top.mark
<1>1. frames \in Seq(Frame) /\ included \in Seq(Nat) /\ Len(frames) > 1
  BY DEF FramesInv, ChildDone
<1>2. Top \in Frame /\ Top.mark \in 0..Len(included)
  BY <1>1, FrameTypes DEF Top, FramesInv, Marks
<1>3. /\ Popped \in Seq(Frame)
      /\ Len(Popped) = Len(frames) - 1
      /\ \A i \in 1..(Len(frames) - 1) : Popped[i] = frames[i]
  BY <1>1, SubSeqProperties DEF Popped
<1>4. \A i \in 1..(Len(frames) - 1) : frames[i].mark \in Nat /\ frames[i].mark <= Top.mark
  BY <1>1, FrameTypes DEF FramesInv, Marks, Top
<1>5. QED
  BY <1>1, <1>2, <1>3, <1>4

\* Merging or rejecting a child keeps the stack and the marks: the report is never
\* cut below the mark of a document still being expanded (with_child).
LEMMA PopKeepsFrames ==
    ASSUME FramesInv, ChildDone, frames' = Popped, includer' = includer,
           included' \in Seq(Nat), Len(included') >= Top.mark
    PROVE  FramesInv'
<1>1. /\ Len(frames') = Len(frames) - 1 /\ Len(frames) \in Nat
      /\ \A i \in 1..Len(frames') : i \in 1..Len(frames) /\ frames'[i] = frames[i]
  BY PoppedFrames DEF FramesInv
<1>2. AcyclicStack'
  BY <1>1 DEF FramesInv, AcyclicStack
<1>3. Marks'
  <2>1. \A i \in 1..Len(frames') : frames'[i].mark <= Len(included')
    BY SMTT(30), <1>1, PoppedFrames
  <2>2. QED  BY <1>1, <2>1 DEF FramesInv, Marks
<1>4. QED
  BY <1>2, <1>3, PoppedFrames DEF FramesInv, Depth

-----------------------------------------------------------------------------
\* A refused directive raises warnings and changes nothing of what is included.
LEMMA RefuseKeeps ==
    ASSUME FramesInv, ReportInv, AtDirective, NEW rule \in Rule, NEW shape \in Shape,
           Refuse(rule, shape)
    PROVE  FramesInv' /\ ReportInv'
BY ConsumedKeepsFrames, RaiseType, RaiseForType DEF Refuse, ReportInv

\* A source that is charged keeps the types of what was read; the call is in the bound.
LEMMA ChargeReading ==
    ASSUME ReadingInv, NEW t \in Target, NEW size \in Size, Charge(t, size)
    PROVE  /\ calls' \in Nat /\ calls' <= MaxCalls
           /\ bytes' \in Nat
           /\ Deps(deps')
           /\ obtained' \subseteq Target
           /\ spent = "none"
<1>1. Deps(deps')
  BY NotedType DEF Charge, ReadingInv
<1>2. obtained' \subseteq Target
  BY DEF Charge, Obtain, ReadingInv
<1>3. size \in Nat /\ bytes \in Nat /\ calls \in Nat /\ spent = "none"
        /\ calls < MaxCalls /\ calls' = calls + 1 /\ bytes' = bytes + size
  BY DEF Charge, Ask, ReadingInv
<1>4. QED
  BY <1>1, <1>2, <1>3

\* An answer that is not charged keeps them too.
LEMMA UnchargedReading ==
    ASSUME ReadingInv, Ask, bytes' = bytes, spent' = spent, Deps(deps'),
           obtained' \subseteq Target
    PROVE  ReadingInv'
BY DEF ReadingInv, Ask, LatchExact

\* A refusal without a call leaves the counters, whatever is noted.
LEMMA UnaskedReading ==
    ASSUME ReadingInv, Deps(deps'), UNCHANGED <<calls, bytes, obtained>>,
           \/ spent' = spent
           \/ spent = "none" /\ spent' = "include-call-limit" /\ calls >= MaxCalls
    PROVE  ReadingInv'
BY DEF ReadingInv, LatchExact, SpentRule

\* A pass starts with one frame and nothing read, reported or latched.
LEMMA InitIInv == Init => IInv
<1> SUFFICES ASSUME Init PROVE IInv
  OBVIOUS
<1>1. PICK n \in 0..MaxDirectives :
        frames = <<[file |-> RootTarget, left |-> n, serial |-> 0,
                    position |-> "block", mark |-> 0]>>
  BY DEF Init
<1>2. FramesInv
  <2>1. /\ frames \in Seq(Frame) /\ Len(frames) = 1
        /\ frames[1].mark = 0
    BY <1>1 DEF Frame, Position
  <2>2. QED
    BY <2>1 DEF Init, FramesInv, Depth, AcyclicStack, Marks
<1>3. ReadingInv
  BY DEF Init, ReadingInv, Deps, LatchExact
<1>4. ReportInv
  BY DEF Init, ReportInv
<1>5. QED
  BY <1>2, <1>3, <1>4 DEF IInv

\* Every step of the pass keeps the invariant: one case per action.
LEMMA NextKeepsIInv == IInv /\ [Next]_vars => IInv'
<1> SUFFICES ASSUME IInv, [Next]_vars PROVE IInv'
  OBVIOUS
<1> USE DEF IInv
<1>1. ASSUME NEW rule \in UnreadRule, RefuseUnread(rule) PROVE IInv'
  <2>1. FramesInv' /\ ReportInv'
    BY <1>1, RefuseKeeps DEF RefuseUnread, Rule, Shape
  <2>2. ReadingInv'
    BY <1>1 DEF RefuseUnread, reading, ReadingInv, Deps, LatchExact
  <2>3. QED  BY <2>1, <2>2
<1>2. ASSUME NEW t \in Target, NEW shape \in Shape,
             RefuseDepth(t, shape) \/ RefuseSpent(t, shape) \/ RefuseCalls(t, shape)
      PROVE  IInv'
  <2>1. Deps(deps')
    BY <1>2, NotedType DEF RefuseDepth, RefuseSpent, RefuseCalls, ReadingInv
  <2>2. ReadingInv'
    BY <1>2, <2>1, UnaskedReading DEF RefuseDepth, RefuseSpent, RefuseCalls
  <2>3. AtDirective
    BY <1>2 DEF RefuseDepth, RefuseSpent, RefuseCalls
  <2>4. spent # "none" => spent \in Rule
    BY DEF Rule, ReadingInv
  <2>5. \E rule \in Rule : Refuse(rule, shape)
    <3>1. CASE RefuseDepth(t, shape)
      BY <3>1 DEF RefuseDepth, Rule
    <3>2. CASE RefuseSpent(t, shape)
      BY <3>2, <2>4 DEF RefuseSpent
    <3>3. CASE RefuseCalls(t, shape)
      BY <3>3 DEF RefuseCalls, Rule, SpentRule
    <3>4. QED  BY <1>2, <3>1, <3>2, <3>3
  <2>6. QED  BY <2>2, <2>3, <2>5, RefuseKeeps
<1>3. ASSUME NEW t \in Target, NEW shape \in Shape,
             (\E denial \in Denial : ReadDenied(t, denial, shape)) \/ ReadNonText(t, shape)
      PROVE  IInv'
  <2>1. Deps(deps')
    BY <1>3, NotedType DEF ReadDenied, ReadNonText, ReadingInv
  <2>2. Ask /\ ReadingInv'
    BY <1>3, <2>1, UnchargedReading DEF ReadDenied, ReadNonText, ReadingInv
  <2>3. \E rule \in Rule : Refuse(rule, shape)
    BY <1>3 DEF ReadDenied, ReadNonText, Rule
  <2>4. QED  BY <2>2, <2>3, RefuseKeeps DEF Ask
<1>4. ASSUME NEW t \in Target, NEW shape \in Shape, NEW size \in Size,
             ReadBinary(t, size, shape) \/ ReadCycle(t, size, shape)
               \/ (shape = WellFormed /\ \E rule \in OptionRule : ReadOptionsInvalid(t, size, rule))
      PROVE  IInv'
  <2>1. Deps(deps')
    BY <1>4, NotedType DEF ReadBinary, ReadCycle, ReadOptionsInvalid, ReadingInv
  <2>2. obtained' \subseteq Target
    BY <1>4 DEF ReadBinary, ReadCycle, ReadOptionsInvalid, Obtain, ReadingInv
  <2>3. Ask /\ ReadingInv'
    BY <1>4, <2>1, <2>2, UnchargedReading DEF ReadBinary, ReadCycle, ReadOptionsInvalid
  <2>4. \E rule \in Rule : Refuse(rule, shape)
    BY <1>4 DEF ReadBinary, ReadCycle, ReadOptionsInvalid, Rule
  <2>5. QED  BY <2>3, <2>4, RefuseKeeps DEF Ask
<1>5. ASSUME NEW t \in Target, NEW shape \in Shape, NEW size \in Size,
             ReadOverBudget(t, size, shape)
      PROVE  IInv'
  <2>1. ReadingInv'
    BY <1>5, ChargeReading DEF ReadOverBudget, ReadingInv, LatchExact, SpentRule
  <2>2. AtDirective /\ Refuse("include-budget", shape)
    BY <1>5 DEF ReadOverBudget, Charge, Ask
  <2>3. QED  BY <2>1, <2>2, RefuseKeeps DEF Rule, SpentRule
<1>6. ASSUME NEW t \in Target, NEW size \in Size, Charge(t, size), bytes' <= MaxBytes,
             UNCHANGED spent
      PROVE  ReadingInv'
  BY <1>6, ChargeReading DEF ReadingInv, LatchExact
<1>7. ASSUME NEW t \in Target, NEW size \in Size, NEW rule \in SelectionRule,
             ReadSelectionFails(t, size, rule)
      PROVE  IInv'
  <2>1. ReadingInv'
    BY <1>6, <1>7 DEF ReadSelectionFails
  <2>2. AtDirective /\ Refuse(rule, WellFormed)
    BY <1>7 DEF ReadSelectionFails, Charge, Ask
  <2>3. QED  BY <2>1, <2>2, RefuseKeeps DEF Rule, Shape
<1>8. ASSUME NEW t \in Target, NEW size \in Size, NEW rule \in MalformedRule,
             ReadMalformed(t, size, rule)
      PROVE  IInv'
  <2>1. ReadingInv'
    BY <1>6, <1>8 DEF ReadMalformed
  <2>2. FramesInv'
    BY <1>8, ConsumedKeepsFrames DEF ReadMalformed, Charge, Ask
  <2>3. ReportInv'
    BY <1>8, RaiseType DEF ReadMalformed, ReportInv, Rule
  <2>4. QED  BY <2>1, <2>2, <2>3
<1>9. ASSUME NEW t \in Target, NEW size \in Size, NEW position \in Position,
             NEW n \in 0..MaxDirectives, Enter(t, size, position, n)
      PROVE  IInv'
  <2>1. ReadingInv'
    BY <1>6, <1>9 DEF Enter
  <2>2. FramesInv'
    BY <1>9, EnterKeepsFrames
  <2>3. QED  BY <1>9, <2>1, <2>2 DEF Enter, ReportInv
<1>10. ASSUME UNCHANGED reading PROVE ReadingInv'
  BY <1>10 DEF reading, ReadingInv, Deps, LatchExact
<1>11. CASE Merge
  <2> DEFINE before == SubSeq(included, 1, Top.mark)
             after == SubSeq(included, Top.mark + 1, Len(included))
  <2>1. Top.mark \in 0..Len(included) /\ Top.serial \in Nat /\ included \in Seq(Nat)
    BY <1>11, PoppedFrames DEF Merge, FramesInv, Frame
  <2>2. before \in Seq(Nat) /\ Len(before) = Top.mark /\ after \in Seq(Nat)
    BY <2>1, SubSeqProperties
  <2>3. included' = before \o <<Top.serial>> \o after
    BY <1>11 DEF Merge
  <2>4. included' \in Seq(Nat) /\ Len(included') >= Top.mark
    <3> HIDE DEF before, after
    <3>1. QED  BY <2>1, <2>2, <2>3
  <2>5. FramesInv'
    BY <1>11, <2>4, PopKeepsFrames DEF Merge
  <2>6. QED  BY <1>10, <1>11, <2>5 DEF Merge, ReportInv
<1>12. CASE RejectBlockInInline
  <2>1. Top.mark \in 0..Len(included) /\ included \in Seq(Nat)
    BY <1>12, PoppedFrames DEF RejectBlockInInline, FramesInv
  <2>2. included' \in Seq(Nat) /\ Len(included') = Top.mark
    BY <1>12, <2>1, SubSeqProperties DEF RejectBlockInInline
  <2>3. FramesInv'
    BY <1>12, <2>1, <2>2, PopKeepsFrames DEF RejectBlockInInline
  <2>4. ReportInv'
    BY <1>12, RaiseType DEF RejectBlockInInline, ReportInv, Rule
  <2>5. QED  BY <1>10, <1>12, <2>3, <2>4 DEF RejectBlockInInline
<1>13. CASE Finish
  <2>1. FramesInv'
    BY <1>13 DEF Finish, inclusion, FramesInv, Depth, AcyclicStack, Marks
  <2>2. QED  BY <1>10, <1>13, <2>1 DEF Finish, ReportInv
<1>14. CASE UNCHANGED vars
  <2>1. FramesInv'
    BY <1>14 DEF vars, inclusion, FramesInv, Depth, AcyclicStack, Marks
  <2>2. QED  BY <1>10, <1>14, <2>1 DEF vars, ReportInv
<1>15. QED
  BY <1>1, <1>2, <1>3, <1>4, <1>5, <1>7, <1>8, <1>9, <1>11, <1>12, <1>13, <1>14
  DEF Next, Refusing, Reading, Obtaining, Done, Shape

-----------------------------------------------------------------------------
\* The invariant holds throughout every expansion.
THEOREM Invariant == Spec => []IInv
BY InitIInv, NextKeepsIInv, PTL DEF Spec

\* The state of the pass is well typed for every resolver and every document.
THEOREM TypeCorrect == Spec => []TypeOK
BY Invariant, IInvConsequences, PTL

\* No document is expanded inside itself, however its id is spelled.
THEOREM NoCycle == Spec => []AcyclicStack
BY Invariant, IInvConsequences, PTL

\* The depth and the number of resolver calls stay within the limits of the host.
THEOREM WorkIsBounded == Spec => []WorkBounded
BY Invariant, IInvConsequences, PTL

\* The latch names the total that ran out, and is set as soon as one does.
THEOREM LatchIsExact == Spec => []LatchExact
BY Invariant, IInvConsequences, PTL

-----------------------------------------------------------------------------
\* Every step reads, exhausts the calls, or does neither, as IncludeBudget allows.
LEMMA StepImplementsBudget ==
    ASSUME IInv, [Next]_vars
    PROVE  [Budget!Next]_(Budget!vars)
<1> USE DEF Budget!vars, Budget!Next, Budget!MayRead, Budget!ReadUncharged
<1>0. ReadingInv
  BY DEF IInv
<1>1. ASSUME NEW t \in Target, NEW shape \in Shape,
             RefuseDepth(t, shape) \/ RefuseSpent(t, shape)
      PROVE  UNCHANGED Budget!vars
  BY <1>1 DEF RefuseDepth, RefuseSpent
<1>2. ASSUME NEW t \in Target, NEW shape \in Shape, RefuseCalls(t, shape)
      PROVE  Budget!Exhaust
  BY <1>0, <1>2 DEF RefuseCalls, Budget!Exhaust, ReadingInv
<1>3. ASSUME Ask, bytes' = bytes, spent' = spent
      PROVE  Budget!ReadUncharged
  BY <1>3 DEF Ask
<1>4. ASSUME NEW t \in Target, NEW size \in Size, Charge(t, size),
             spent' = IF bytes' > MaxBytes THEN "include-budget" ELSE "none"
      PROVE  Budget!Next
  BY <1>4 DEF Charge, Ask, Budget!ReadCharged
<1>5. ASSUME NEW t \in Target, NEW size \in Size, Charge(t, size), bytes' <= MaxBytes,
             spent' = spent
      PROVE  Budget!Next
  <2>1. bytes' \in Nat /\ spent = "none"
    BY <1>0, <1>5, ChargeReading
  <2>2. QED  BY <1>4, <1>5, <2>1
<1>6. ASSUME NEW t \in Target, NEW size \in Size, NEW shape \in Shape,
             ReadOverBudget(t, size, shape)
      PROVE  Budget!Next
  BY <1>4, <1>6 DEF ReadOverBudget
<1>7. ASSUME Refusing PROVE [Budget!Next]_(Budget!vars)
  BY <1>1, <1>2, <1>7 DEF Refusing, RefuseUnread, reading
<1>8. ASSUME Reading PROVE Budget!Next
  BY <1>3, <1>6, <1>8 DEF Reading, ReadDenied, ReadNonText, ReadBinary, ReadCycle
<1>9. ASSUME Obtaining PROVE Budget!Next
  <2>1. ASSUME NEW t \in Target, NEW size \in Size, NEW rule \in OptionRule,
               ReadOptionsInvalid(t, size, rule)
        PROVE  Budget!Next
    BY <1>3, <2>1 DEF ReadOptionsInvalid
  <2>2. ASSUME NEW t \in Target, NEW size \in Size,
               \/ \E rule \in SelectionRule : ReadSelectionFails(t, size, rule)
               \/ \E rule \in MalformedRule : ReadMalformed(t, size, rule)
               \/ \E position \in Position, n \in 0..MaxDirectives : Enter(t, size, position, n)
        PROVE  Budget!Next
    BY <1>5, <2>2 DEF ReadSelectionFails, ReadMalformed, Enter
  <2>3. QED  BY <1>9, <2>1, <2>2 DEF Obtaining
<1>10. ASSUME Merge \/ RejectBlockInInline \/ Finish \/ Done \/ UNCHANGED vars
       PROVE  UNCHANGED Budget!vars
  BY <1>10 DEF Merge, RejectBlockInInline, Finish, Done, vars, reading
<1>11. QED
  BY <1>7, <1>8, <1>9, <1>10 DEF Next

\* The pass reads no more than IncludeBudget promises and never after a latch.
THEOREM Refinement == Spec => ImplementsBudget
<1>1. Init => Budget!Init
  BY DEF Init, Budget!Init
<1>2. QED
  BY <1>1, Invariant, StepImplementsBudget, PTL DEF Spec, ImplementsBudget, Budget!Spec

\* A target reported as read stays so, and none is reported that was not read.
ReadDeps == Deps(deps) /\ ResolvedWasRead

\* Noting a target that was read, or denying one, keeps every earlier report.
LEMMA NotedKeeps ==
    ASSUME ReadDeps, NEW t \in Target, NEW resolved \in BOOLEAN,
           NEW denial \in {"none"} \cup Denial,
           deps' = Noted(t, resolved, denial),
           obtained \subseteq obtained',
           resolved => t \in obtained'
    PROVE  /\ ResolvedWasRead'
           /\ \A u \in DOMAIN deps :
                u \in DOMAIN deps' /\ (deps[u].resolved => deps'[u].resolved)
BY DEF ReadDeps, Deps, ResolvedWasRead, Noted

Upgraded ==
    \A t \in DOMAIN deps : t \in DOMAIN deps' /\ (deps[t].resolved => deps'[t].resolved)

\* A step notes one target, after obtaining its source if it says so, or notes nothing.
LEMMA StepNotes ==
    ASSUME IInv, ResolvedWasRead, [Next]_vars
    PROVE  ResolvedWasRead' /\ Upgraded
<1>0. ReadDeps /\ obtained \subseteq Target
  BY DEF IInv, ReadingInv, ReadDeps
<1>1. ASSUME UNCHANGED <<deps, obtained>> PROVE ResolvedWasRead' /\ Upgraded
  BY <1>1 DEF ResolvedWasRead, Upgraded
<1>2. ASSUME NEW t \in Target, NEW resolved \in BOOLEAN, NEW denial \in {"none"} \cup Denial,
             deps' = Noted(t, resolved, denial),
             obtained' = obtained, ~resolved
      PROVE  ResolvedWasRead' /\ Upgraded
  BY <1>0, <1>2, NotedKeeps DEF Upgraded
<1>3. ASSUME NEW t \in Target, NEW resolved \in BOOLEAN,
             deps' = Noted(t, resolved, "none"), Obtain(t)
      PROVE  ResolvedWasRead' /\ Upgraded
  <2>1. obtained \subseteq obtained' /\ t \in obtained'
    BY <1>3 DEF Obtain
  <2>2. QED  BY <1>0, <1>3, <2>1, NotedKeeps DEF Upgraded
<1>4. ASSUME Refusing PROVE ResolvedWasRead' /\ Upgraded
  BY <1>1, <1>2, <1>4
  DEF Refusing, RefuseUnread, RefuseDepth, RefuseSpent, RefuseCalls, reading
<1>5. ASSUME Reading PROVE ResolvedWasRead' /\ Upgraded
  BY <1>2, <1>3, <1>5
  DEF Reading, ReadDenied, ReadNonText, ReadBinary, ReadCycle, ReadOverBudget, Charge
<1>6. ASSUME Obtaining PROVE ResolvedWasRead' /\ Upgraded
  BY <1>3, <1>6
  DEF Obtaining, ReadOptionsInvalid, ReadSelectionFails, ReadMalformed, Enter, Charge
<1>7. ASSUME Merge \/ RejectBlockInInline \/ Finish \/ Done \/ UNCHANGED vars
      PROVE  ResolvedWasRead' /\ Upgraded
  BY <1>1, <1>7 DEF Merge, RejectBlockInInline, Finish, Done, vars, reading
<1>8. QED
  BY <1>4, <1>5, <1>6, <1>7 DEF Next

\* A dependency is reported as resolved only when its source was obtained.
THEOREM ResolvedIsRead == Spec => []ResolvedWasRead
<1>1. Init => ResolvedWasRead
  BY DEF Init, ResolvedWasRead
<1>2. QED
  BY <1>1, Invariant, StepNotes, PTL DEF Spec

\* A host is never told to stop watching a target that was read.
THEOREM NeverDowngraded == Spec => ResolvedStays
<1>1. IInv /\ ResolvedWasRead /\ [Next]_vars => [Upgraded]_vars
  BY StepNotes
<1>2. QED
  BY <1>1, Invariant, ResolvedIsRead, PTL DEF Spec, ResolvedStays, Upgraded

-----------------------------------------------------------------------------
\* Raising a warning counts it, among the shown or among the suppressed ones.
LEMMA RaiseCounts ==
    ASSUME NEW log \in [shown: Nat, rules: SUBSET Rule, suppressed: Nat],
           NEW rule \in Rule
    PROVE  Raised(Raise(log, rule)) = Raised(log) + 1
<1>1. log.shown \in Nat /\ log.suppressed \in Nat
  OBVIOUS
<1>2. CASE log.shown >= MaxWarnings /\ rule \in log.rules
  <2>1. Raise(log, rule) = [log EXCEPT !.suppressed = @ + 1]
    BY <1>2 DEF Raise
  <2>2. /\ Raise(log, rule).shown = log.shown
        /\ Raise(log, rule).suppressed = log.suppressed + 1
    BY <2>1
  <2>3. QED  BY <1>1, <2>2 DEF Raised
<1>3. CASE ~(log.shown >= MaxWarnings /\ rule \in log.rules)
  <2>1. Raise(log, rule) = [shown |-> log.shown + 1, rules |-> log.rules \cup {rule},
                            suppressed |-> log.suppressed]
    BY <1>3 DEF Raise
  <2>2. QED  BY <1>1, <2>1 DEF Raised
<1>4. QED  BY <1>2, <1>3

\* A refused directive raises one warning, or two when it is malformed as well.
LEMMA RefuseCounts ==
    ASSUME ReportInv, NEW rule \in Rule, NEW shape \in Shape,
           report' = RaiseFor(Raise(report, rule), shape)
    PROVE  Raised(report') > Raised(report)
<1> DEFINE log == Raise(report, rule)
<1>1. log \in [shown: Nat, rules: SUBSET Rule, suppressed: Nat]
  BY RaiseType DEF ReportInv
<1>2. Raised(log) = Raised(report) + 1 /\ Raised(report) \in Nat
  BY RaiseCounts DEF ReportInv, Raised
<1>3. CASE shape = WellFormed
  BY <1>2, <1>3 DEF RaiseFor
<1>4. CASE shape # WellFormed
  <2>1. shape \in Rule /\ report' = Raise(log, shape)
    BY <1>4 DEF Shape, Rule, RaiseFor
  <2>2. Raised(report') = Raised(log) + 1
    BY <1>1, <2>1, RaiseCounts
  <2>3. QED  BY <1>2, <2>2
<1>5. QED  BY <1>3, <1>4

\* What a step does with the directive or the child it settles.
Settled ==
    \/ Len(frames') > Len(frames)
    \/ Len(frames) = 1 /\ frames' = << >>
    \/ Len(frames') < Len(frames) /\ \E i \in DOMAIN included' : included'[i] = Top.serial
    \/ Raised(report') > Raised(report)

\* Where the report of a merged child goes: after what preceded it, before its
\* own children's (`included.insert(before, ..)`).
LEMMA MergedReport ==
    ASSUME FramesInv, Merge
    PROVE  /\ Len(included') = Len(included) + 1
           /\ Top.mark \in 0..Len(included)
           /\ \A k \in 1..Top.mark : included'[k] = included[k]
           /\ included'[Top.mark + 1] = Top.serial
           /\ \A k \in (Top.mark + 2)..(Len(included) + 1) : included'[k] = included[k - 1]
<1> DEFINE before == SubSeq(included, 1, Top.mark)
           after == SubSeq(included, Top.mark + 1, Len(included))
<1>1. Top.mark \in 0..Len(included) /\ Top.serial \in Nat /\ included \in Seq(Nat)
  BY PoppedFrames DEF Merge, FramesInv, Frame
<1>2. /\ before \in Seq(Nat) /\ Len(before) = Top.mark
      /\ \A k \in 1..Top.mark : before[k] = included[k]
  BY <1>1, SubSeqProperties
<1>3. /\ after \in Seq(Nat) /\ Len(after) = Len(included) - Top.mark
      /\ \A k \in 1..(Len(included) - Top.mark) : after[k] = included[k + Top.mark]
  <2>1. /\ Top.mark \in Nat /\ Len(included) \in Nat /\ Top.mark <= Len(included)
        /\ \A k \in (Top.mark + 1)..Len(included) : included[k] \in Nat
    BY <1>1
  <2>2. /\ after \in Seq(Nat)
        /\ Len(after) = IF Top.mark + 1 <= Len(included)
                          THEN Len(included) - (Top.mark + 1) + 1 ELSE 0
        /\ \A k \in 1..(Len(included) - (Top.mark + 1) + 1) :
              after[k] = included[Top.mark + 1 + k - 1]
    BY <2>1, SubSeqProperties
  <2> HIDE DEF after
  <2>3. \A k \in 1..(Len(included) - Top.mark) : Top.mark + 1 + k - 1 = k + Top.mark
    BY <2>1
  <2>4. QED  BY SMTT(30), <2>1, <2>2, <2>3
<1>4. included' = before \o <<Top.serial>> \o after
  BY DEF Merge
<1> HIDE DEF before, after
<1>5. /\ Len(included') = Len(included) + 1
      /\ \A k \in 1..Top.mark : included'[k] = before[k]
      /\ included'[Top.mark + 1] = Top.serial
      /\ \A k \in (Top.mark + 2)..(Len(included) + 1) :
           included'[k] = after[k - Top.mark - 1]
  <2> DEFINE head == before \o <<Top.serial>>
  <2>1. <<Top.serial>> \in Seq(Nat) /\ Len(<<Top.serial>>) = 1 /\ <<Top.serial>>[1] = Top.serial
    BY <1>1
  <2>2. /\ head \in Seq(Nat) /\ Len(head) = Top.mark + 1
        /\ \A k \in 1..Top.mark : head[k] = before[k]
        /\ head[Top.mark + 1] = Top.serial
    BY SMTT(30), <1>1, <1>2, <2>1
  <2> HIDE DEF head
  <2>3. included' = head \o after
    BY <1>4 DEF head
  <2>4. /\ Len(included') = Len(head) + Len(after)
        /\ \A k \in 1..(Len(head) + Len(after)) :
             included'[k] = IF k <= Len(head) THEN head[k] ELSE after[k - Len(head)]
    BY <1>3, <2>2, <2>3, ConcatProperties
  <2>5. Len(head) + Len(after) = Len(included) + 1 /\ Len(included) \in Nat
    BY <1>1, <1>3, <2>2
  <2>6. \A k \in 1..(Len(included) + 1) :
          included'[k] = IF k <= Top.mark + 1 THEN head[k] ELSE after[k - (Top.mark + 1)]
    BY <2>2, <2>4, <2>5
  <2>7. ASSUME NEW k \in (Top.mark + 2)..(Len(included) + 1)
        PROVE  included'[k] = after[k - Top.mark - 1]
    <3>1. k \in 1..(Len(included) + 1) /\ ~(k <= Top.mark + 1)
            /\ k - (Top.mark + 1) = k - Top.mark - 1
      BY <1>1, <2>5
    <3>2. QED  BY <2>6, <3>1
  <2>8. /\ \A k \in 1..Top.mark : k \in 1..(Len(included) + 1) /\ k <= Top.mark + 1
        /\ Top.mark + 1 \in 1..(Len(included) + 1)
    BY <1>1, <2>5
  <2>9. \A k \in 1..Top.mark : included'[k] = before[k]
    BY <2>2, <2>6, <2>8
  <2>10. included'[Top.mark + 1] = Top.serial
    <3>1. Top.mark + 1 <= Top.mark + 1
      BY <1>1
    <3>2. QED  BY <2>2, <2>6, <2>8, <3>1
  <2>11. QED  BY <2>4, <2>5, <2>7, <2>9, <2>10
<1>6. ASSUME NEW k \in (Top.mark + 2)..(Len(included) + 1)
      PROVE  included'[k] = included[k - 1]
  <2>1. k - Top.mark - 1 \in 1..(Len(included) - Top.mark)
    BY SMTT(30), <1>1
  <2>2. after[k - Top.mark - 1] = included[k - Top.mark - 1 + Top.mark]
    BY <1>3, <2>1
  <2>3. k - Top.mark - 1 + Top.mark = k - 1
    BY <1>1
  <2>4. QED  BY <1>5, <2>2, <2>3
<1>7. QED  BY <1>1, <1>2, <1>5, <1>6

\* Every step enters a document, ends the pass, reports the child or warns.
LEMMA StepSettles ==
    ASSUME IInv, Next
    PROVE  Settled \/ UNCHANGED vars
<1>0. ReportInv /\ FramesInv
  BY DEF IInv
<1>1. ASSUME NEW rule \in Rule, NEW shape \in Shape, Refuse(rule, shape)
      PROVE  Settled
  BY <1>0, <1>1, RefuseCounts DEF Refuse, Settled
<1>2. CASE Refusing
  <2>1. ASSUME NEW rule \in UnreadRule, RefuseUnread(rule) PROVE Settled
    BY <1>1, <2>1 DEF RefuseUnread, Rule, Shape
  <2>2. ASSUME NEW t \in Target, NEW shape \in Shape,
               RefuseDepth(t, shape) \/ RefuseSpent(t, shape) \/ RefuseCalls(t, shape)
        PROVE  Settled
    <3>1. CASE RefuseDepth(t, shape)
      BY <1>1, <3>1 DEF RefuseDepth, Rule
    <3>2. CASE RefuseSpent(t, shape)
      <4>1. spent \in Rule
        BY <3>2 DEF RefuseSpent, IInv, ReadingInv, Rule
      <4>2. QED  BY <1>1, <3>2, <4>1 DEF RefuseSpent
    <3>3. CASE RefuseCalls(t, shape)
      BY <1>1, <3>3 DEF RefuseCalls, Rule, SpentRule
    <3>4. QED  BY <2>2, <3>1, <3>2, <3>3
  <2>3. QED  BY <1>2, <2>1, <2>2 DEF Refusing
<1>3. CASE Reading
  <2>1. \E shape \in Shape, rule \in Rule : Refuse(rule, shape)
    BY <1>3 DEF Reading, ReadDenied, ReadNonText, ReadBinary, ReadCycle, ReadOverBudget,
                Rule, SpentRule
  <2>2. QED  BY <1>1, <2>1
<1>4. CASE Obtaining
  <2>1. ASSUME NEW t \in Target, NEW size \in Size,
               \/ \E rule \in OptionRule : ReadOptionsInvalid(t, size, rule)
               \/ \E rule \in SelectionRule : ReadSelectionFails(t, size, rule)
        PROVE  Settled
    <3>1. \E rule \in Rule : Refuse(rule, WellFormed)
      BY <2>1 DEF ReadOptionsInvalid, ReadSelectionFails, Rule
    <3>2. QED  BY <1>1, <3>1 DEF Shape
  <2>2. ASSUME NEW t \in Target, NEW size \in Size, NEW rule \in MalformedRule,
               ReadMalformed(t, size, rule)
        PROVE  Settled
    <3>1. Raised(report') = Raised(report) + 1 /\ Raised(report) \in Nat
      BY <1>0, <2>2, RaiseCounts DEF ReadMalformed, ReportInv, Rule, Raised
    <3>2. QED  BY <3>1 DEF Settled
  <2>3. ASSUME NEW t \in Target, NEW size \in Size, NEW position \in Position,
               NEW n \in 0..MaxDirectives, Enter(t, size, position, n)
        PROVE  Settled
    <3> DEFINE new == [file |-> t, left |-> n, serial |-> Len(includer) + 1,
                       position |-> position, mark |-> Len(included)]
    <3>1. Consumed \in Seq(Frame) /\ Len(Consumed) = Len(frames) /\ Len(frames) \in Nat
      BY <1>0, <2>3, ConsumedFrames DEF Enter, Charge, Ask
    <3>2. frames' = Append(Consumed, new)
      BY <2>3 DEF Enter
    <3>3. Len(frames') = Len(frames) + 1
      BY <3>1, <3>2
    <3>4. QED  BY <3>1, <3>3 DEF Settled
  <2>4. QED  BY <1>4, <2>1, <2>2, <2>3 DEF Obtaining
<1>5. CASE Merge
  <2>1. Len(frames') < Len(frames)
    BY <1>0, <1>5, PoppedFrames DEF Merge
  <2>2. Top.mark + 1 \in DOMAIN included' /\ included'[Top.mark + 1] = Top.serial
    <3>1. included' \in Seq(Nat)
      BY <1>5, NextKeepsIInv DEF IInv, FramesInv
    <3>2. QED  BY <1>0, <1>5, <3>1, MergedReport
  <2>3. QED  BY <2>1, <2>2 DEF Settled
<1>6. CASE RejectBlockInInline
  <2>1. Raised(report') = Raised(report) + 1 /\ Raised(report) \in Nat
    BY <1>0, <1>6, RaiseCounts DEF RejectBlockInInline, ReportInv, Rule, Raised
  <2>2. QED  BY <2>1 DEF Settled
<1>7. CASE Finish
  BY <1>7 DEF Finish, Settled
<1>8. QED
  BY <1>2, <1>3, <1>4, <1>5, <1>6, <1>7 DEF Next, Done

\* No directive is dropped in silence: what is not replaced by content is warned of.
THEOREM NothingIsSilent == Spec => NeverSilent
<1>1. IInv /\ [Next]_vars => [Settled]_vars
  BY StepSettles
<1>2. QED
  BY <1>1, Invariant, PTL DEF Spec, NeverSilent, Settled

-----------------------------------------------------------------------------
\* Documents are numbered in the order they are entered: a document's number is
\* above that of the one that includes it, and those being expanded form a chain.
Numbered ==
    /\ \A s \in 1..Len(includer) : includer[s] < s
    /\ \A f \in 1..Len(frames) : frames[f].serial \in 0..Len(includer)
    /\ frames # << >> => frames[1].serial = 0
    /\ \A f \in 2..Len(frames) : /\ frames[f].serial > 0
                                 /\ includer[frames[f].serial] = frames[f - 1].serial
    /\ \A f, g \in 1..Len(frames) : f < g => frames[f].serial < frames[g].serial

\* The mark of a child splits the report: what was entered before it, what after.
Split ==
    /\ \A k \in 1..Len(included) : included[k] \in 1..Len(includer)
    /\ \A f \in 2..Len(frames), k \in 1..Len(included) :
         IF k <= frames[f].mark THEN included[k] < frames[f].serial
                                ELSE included[k] > frames[f].serial

\* ReportsNest, with the places of the report as numbers.
Reached ==
    \A k \in 1..Len(included) :
       \/ includer[included[k]] = 0
       \/ \E j \in 1..(k - 1) : included[j] = includer[included[k]]
       \/ \E f \in 1..Len(frames) : frames[f].serial = includer[included[k]]
Ordered == \A j, k \in 1..Len(included) : j < k => included[j] < included[k]

NestInv == Numbered /\ Split /\ Reached /\ Ordered

\* It is ReportsNest, stated over the report's places.
LEMMA NestGivesReports ==
    ASSUME included \in Seq(Nat), Reached, Ordered
    PROVE  ReportsNest
<1>1. DOMAIN included = 1..Len(included)
  OBVIOUS
<1>2. ASSUME NEW i \in 1..Len(included)
      PROVE  \/ includer[included[i]] \in {0} \cup {included[j] : j \in 1..(i - 1)}
             \/ \E f \in 1..Len(frames) : frames[f].serial = includer[included[i]]
  BY <1>2 DEF Reached
<1>3. QED  BY <1>1, <1>2 DEF ReportsNest, Ordered

\* A pass starts with the root alone and nothing reported.
LEMMA InitNest == Init => NestInv
<1> SUFFICES ASSUME Init PROVE NestInv
  OBVIOUS
<1>1. Len(frames) = 1 /\ frames[1].serial = 0 /\ Len(includer) = 0 /\ Len(included) = 0
  BY DEF Init
<1>2. QED
  BY <1>1 DEF NestInv, Numbered, Split, Reached, Ordered

\* Passing a directive changes no number and no mark.
LEMMA ConsumedKeepsNest ==
    ASSUME FramesInv, NestInv, AtDirective, frames' = Consumed, UNCHANGED inclusion
    PROVE  NestInv'
<1>1. Len(frames') = Len(frames) /\ Len(frames) \in Nat \ {0} /\ frames # << >>
  BY ConsumedFrames DEF AtDirective
<1>2. \A i \in 1..Len(frames) : /\ frames'[i].serial = frames[i].serial
                                /\ frames'[i].mark = frames[i].mark
  BY ConsumedFrames
<1>3. included' = included /\ includer' = includer
  BY DEF inclusion
<1>4. Numbered'
  <2>1. \A f \in 2..Len(frames) : f \in 1..Len(frames) /\ f - 1 \in 1..Len(frames)
    BY <1>1
  <2>2. \A f \in 1..Len(frames) : frames'[f].serial \in 0..Len(includer)
    BY <1>2 DEF NestInv, Numbered
  <2>3. frames'[1].serial = 0
    <3>1. 1 \in 1..Len(frames)
      BY <1>1
    <3>2. QED  BY <1>1, <1>2, <3>1 DEF NestInv, Numbered
  <2>4. \A f \in 2..Len(frames) : /\ frames'[f].serial > 0
                                   /\ includer[frames'[f].serial] = frames'[f - 1].serial
    BY <1>2, <2>1 DEF NestInv, Numbered
  <2>5. \A f, g \in 1..Len(frames) : f < g => frames'[f].serial < frames'[g].serial
    BY <1>2 DEF NestInv, Numbered
  <2>6. \A k \in 1..Len(includer) : includer[k] < k
    BY DEF NestInv, Numbered
  <2>7. QED  BY <1>1, <1>3, <2>2, <2>3, <2>4, <2>5, <2>6 DEF Numbered
<1>5. Split'
  BY <1>1, <1>2, <1>3 DEF NestInv, Split
<1>6. Reached' /\ Ordered'
  BY <1>1, <1>2, <1>3 DEF NestInv, Reached, Ordered
<1>7. QED  BY <1>4, <1>5, <1>6 DEF NestInv

\* A child gets the next number, above every one reported or being expanded.
LEMMA EnterKeepsNest ==
    ASSUME FramesInv, NestInv, NEW t \in Target, NEW size \in Size, NEW position \in Position,
           NEW n \in 0..MaxDirectives, Enter(t, size, position, n)
    PROVE  NestInv'
<1> DEFINE new == [file |-> t, left |-> n, serial |-> Len(includer) + 1,
                   position |-> position, mark |-> Len(included)]
           L == Len(frames)
           S == Len(includer)
<1>0. AtDirective /\ included \in Seq(Nat) /\ includer \in Seq(Nat)
  BY DEF Enter, Charge, Ask, FramesInv
<1>1. L \in Nat \ {0} /\ S \in Nat /\ Len(included) \in Nat /\ Top = frames[L]
  BY <1>0, ConsumedFrames DEF Top
<1>2. /\ Len(frames') = L + 1
      /\ frames'[L + 1] = new
      /\ \A i \in 1..L : frames'[i] = Consumed[i]
  <2>1. new \in Frame
    BY <1>0 DEF Frame
  <2>2. frames' = Append(Consumed, new)
    BY DEF Enter
  <2> HIDE DEF new
  <2>3. QED  BY <1>0, <2>1, <2>2, ConsumedFrames
<1>3. \A i \in 1..L : frames'[i].serial = frames[i].serial /\ frames'[i].mark = frames[i].mark
  BY <1>0, <1>2, ConsumedFrames
<1>4. frames'[L + 1].serial = S + 1 /\ frames'[L + 1].mark = Len(included)
  BY <1>2
<1>5. Top.serial \in 0..S /\ Top.serial \in Nat
  BY <1>1 DEF NestInv, Numbered
<1>6. /\ Len(includer') = S + 1
      /\ includer'[S + 1] = Top.serial
      /\ \A k \in 1..S : includer'[k] = includer[k]
  BY <1>0, <1>5 DEF Enter
<1>7. included' = included
  BY DEF Enter
<1> HIDE DEF new, L, S
<1> USE DEF NestInv
<1>8. Numbered'
  <2>1. \A k \in 1..Len(includer') : includer'[k] < k
    <3>1. \A k \in 1..S : includer[k] < k
      BY DEF Numbered, S
    <3>2. ASSUME NEW k \in 1..(S + 1) PROVE includer'[k] < k
      <4>1. CASE k \in 1..S
        BY <1>6, <3>1, <4>1
      <4>2. CASE k = S + 1
        <5>1. Top.serial < S + 1
          BY <1>1, <1>5
        <5>2. QED  BY <1>6, <4>2, <5>1
      <4>3. QED  BY <1>1, <4>1, <4>2
    <3>3. QED  BY <1>6, <3>2
  <2>2. \A f \in 1..Len(frames') : frames'[f].serial \in 0..Len(includer')
    <3>1. \A f \in 1..L : frames[f].serial \in 0..S
      BY DEF Numbered, L, S
    <3>2. ASSUME NEW f \in 1..(L + 1) PROVE frames'[f].serial \in 0..(S + 1)
      <4>1. CASE f \in 1..L
        <5>1. frames[f].serial \in 0..S
          BY <3>1, <4>1
        <5>2. QED  BY <1>1, <1>3, <4>1, <5>1
      <4>2. CASE f = L + 1
        BY <1>1, <1>4, <4>2
      <4>3. QED  BY <1>1, <4>1, <4>2
    <3>3. QED  BY <1>2, <1>6, <3>2
  <2>3. frames'[1].serial = 0
    <3>1. frames # << >> /\ 1 \in 1..L
      BY <1>0, <1>1 DEF AtDirective
    <3>2. QED  BY <1>3, <3>1 DEF Numbered
  <2>4. ASSUME NEW f \in 2..Len(frames')
        PROVE  frames'[f].serial > 0 /\ includer'[frames'[f].serial] = frames'[f - 1].serial
    <3>1. CASE f \in 2..L
      <4>1. f \in 1..L /\ f - 1 \in 1..L /\ frames[f].serial > 0 /\ frames[f].serial \in 0..S
              /\ includer[frames[f].serial] = frames[f - 1].serial
        BY <1>1, <3>1 DEF Numbered, L, S
      <4>2. frames[f].serial \in 1..S
        BY <1>1, <4>1
      <4>3. QED  BY <1>3, <1>6, <4>1, <4>2
    <3>2. CASE f = L + 1
      <4>1. f - 1 = L /\ L \in 1..L
        BY <1>1, <3>2
      <4>2. frames'[f - 1].serial = Top.serial
        BY <1>1, <1>3, <4>1
      <4>3. QED  BY <1>1, <1>4, <1>6, <3>2, <4>2
    <3>3. QED  BY <1>1, <1>2, <3>1, <3>2
  <2>5. \A f, g \in 1..Len(frames') : f < g => frames'[f].serial < frames'[g].serial
    <3>1. \A f, g \in 1..L : f < g => frames[f].serial < frames[g].serial
      BY DEF Numbered, L
    <3>2. \A f \in 1..L : frames[f].serial \in 0..S
      BY DEF Numbered, L, S
    <3>3. ASSUME NEW f \in 1..Len(frames'), NEW g \in 1..Len(frames'), f < g
          PROVE  frames'[f].serial < frames'[g].serial
      <4>1. f \in 1..L
        BY <1>1, <1>2, <3>3
      <4>2. CASE g \in 1..L
        BY <1>3, <3>1, <3>3, <4>1, <4>2
      <4>3. CASE g = L + 1
        BY <1>1, <1>3, <1>4, <3>2, <4>1, <4>3
      <4>4. QED  BY <1>1, <1>2, <4>2, <4>3
    <3>4. QED  BY <3>3
  <2>6. QED  BY <2>1, <2>2, <2>3, <2>4, <2>5 DEF Numbered
<1>9. Split'
  <2>1. \A k \in 1..Len(included) : included[k] \in 1..S
    BY DEF Split, S
  <2>2. ASSUME NEW f \in 2..Len(frames'), NEW k \in 1..Len(included)
        PROVE  IF k <= frames'[f].mark THEN included[k] < frames'[f].serial
                                       ELSE included[k] > frames'[f].serial
    <3>1. CASE f \in 2..L
      <4>1. f \in 1..L
        BY <1>1, <3>1
      <4>2. QED  BY <1>3, <3>1, <4>1 DEF Split, L
    <3>2. CASE f = L + 1
      BY <1>1, <1>4, <2>1, <3>2
    <3>3. QED  BY <1>1, <1>2, <3>1, <3>2
  <2>3. \A k \in 1..Len(included) : included[k] \in 1..Len(includer')
    BY <1>1, <1>6, <2>1
  <2>4. QED  BY <1>7, <2>2, <2>3 DEF Split
<1>10. Reached'
  <2>1. ASSUME NEW k \in 1..Len(included)
        PROVE  \/ includer'[included[k]] = 0
               \/ \E j \in 1..(k - 1) : included[j] = includer'[included[k]]
               \/ \E f \in 1..Len(frames') : frames'[f].serial = includer'[included[k]]
    <3>1. included[k] \in 1..S
      BY DEF Split, S
    <3>2. includer'[included[k]] = includer[included[k]]
      BY <1>6, <3>1
    <3>3. ASSUME NEW f \in 1..L, frames[f].serial = includer[included[k]]
          PROVE  \E g \in 1..Len(frames') : frames'[g].serial = includer'[included[k]]
      <4>1. f \in 1..Len(frames')
        BY <1>1, <1>2
      <4>2. QED  BY <1>3, <3>2, <3>3, <4>1
    <3>4. QED  BY <3>2, <3>3 DEF Reached, L
  <2>2. QED  BY <1>7, <2>1 DEF Reached
<1>11. Ordered'
  BY <1>7 DEF Ordered
<1>12. QED  BY <1>8, <1>9, <1>10, <1>11

\* Taking a child off the stack leaves the chain of the others.
LEMMA PopKeepsNumbered ==
    ASSUME FramesInv, Numbered, ChildDone, frames' = Popped, includer' = includer
    PROVE  Numbered'
<1>1. /\ Len(frames') = Len(frames) - 1 /\ Len(frames) \in Nat
      /\ \A i \in 1..Len(frames') : i \in 1..Len(frames) /\ frames'[i] = frames[i]
      /\ Len(frames) > 1
  BY PoppedFrames
<1>2. frames # << >> /\ 1 \in 1..Len(frames')
  BY <1>1
<1>3. frames'[1].serial = 0
  BY <1>1, <1>2 DEF Numbered
<1>4. \A f \in 1..Len(frames') : frames'[f].serial \in 0..Len(includer)
  BY <1>1 DEF Numbered
<1>5. \A f \in 2..Len(frames') : /\ f \in 2..Len(frames) /\ f \in 1..Len(frames')
                                 /\ f - 1 \in 1..Len(frames')
  BY <1>1
<1>6. \A f \in 2..Len(frames') : /\ frames'[f].serial > 0
                                 /\ includer[frames'[f].serial] = frames'[f - 1].serial
  BY <1>1, <1>5 DEF Numbered
<1>7. \A f, g \in 1..Len(frames') : f < g => frames'[f].serial < frames'[g].serial
  BY <1>1 DEF Numbered
<1>8. \A s \in 1..Len(includer) : includer[s] < s
  BY DEF Numbered
<1>9. QED  BY <1>3, <1>4, <1>6, <1>7, <1>8 DEF Numbered

\* What is known of the child that ends: its number, its mark and its includer.
LEMMA Ending ==
    ASSUME FramesInv, Numbered, ChildDone
    PROVE  /\ Top.serial \in 1..Len(includer)
           /\ Len(frames) \in 2..Len(frames) /\ Top = frames[Len(frames)]
           /\ Len(frames) - 1 \in 1..(Len(frames) - 1)
           /\ includer[Top.serial] = frames[Len(frames) - 1].serial
           /\ \A f \in 1..(Len(frames) - 1) : frames[f].serial < Top.serial
<1>1. Len(frames) \in Nat /\ Len(frames) > 1 /\ includer \in Seq(Nat)
  BY PoppedFrames DEF FramesInv
<1>2. Len(frames) \in 2..Len(frames) /\ Len(frames) \in 1..Len(frames)
        /\ Len(frames) - 1 \in 1..(Len(frames) - 1)
  BY <1>1
<1>3. frames[Len(frames)].serial \in 0..Len(includer) /\ frames[Len(frames)].serial > 0
        /\ includer[frames[Len(frames)].serial] = frames[Len(frames) - 1].serial
  BY <1>2 DEF Numbered
<1>4. ASSUME NEW f \in 1..(Len(frames) - 1)
      PROVE  frames[f].serial < frames[Len(frames)].serial
  <2>1. f \in 1..Len(frames) /\ f < Len(frames)
    BY <1>1
  <2>2. QED  BY <1>2, <2>1 DEF Numbered
<1>5. QED  BY <1>1, <1>2, <1>3, <1>4 DEF Top

\* A rejected child takes the reports of its own children with it, and no other.
LEMMA RejectKeepsNest ==
    ASSUME FramesInv, NestInv, RejectBlockInInline
    PROVE  NestInv'
<1> USE DEF NestInv
<1> DEFINE M == Top.mark
           L == Len(frames)
<1>0. ChildDone /\ frames' = Popped /\ includer' = includer /\ included' = SubSeq(included, 1, M)
  BY DEF RejectBlockInInline
<1>1. /\ M \in 0..Len(included) /\ included \in Seq(Nat) /\ Len(included) \in Nat
      /\ L \in Nat /\ L > 1 /\ M \in Nat
  BY <1>0, PoppedFrames DEF FramesInv
<1>2. Len(included') = M /\ \A k \in 1..M : included'[k] = included[k] /\ k \in 1..Len(included)
  <2>1. \A k \in 1..M : k \in 1..Len(included) /\ included[k] \in Nat
    BY <1>1
  <2>2. /\ Len(SubSeq(included, 1, M)) = IF 1 <= M THEN M - 1 + 1 ELSE 0
        /\ \A k \in 1..(M - 1 + 1) : SubSeq(included, 1, M)[k] = included[1 + k - 1]
    BY <1>1, <2>1, SubSeqProperties
  <2>3. \A k \in 1..M : 1 + k - 1 = k /\ k \in 1..(M - 1 + 1)
    BY <1>1
  <2> HIDE DEF M
  <2>4. QED  BY <1>0, <1>1, <2>1, <2>2, <2>3
<1>3. /\ Len(frames') = L - 1
      /\ \A f \in 1..(L - 1) : frames'[f] = frames[f]
  BY <1>0, PoppedFrames
<1>4. Numbered'
  BY <1>0, PopKeepsNumbered
<1>5. Split'
  <2>1. \A f \in 2..(L - 1) : f \in 2..L /\ f \in 1..(L - 1)
    BY <1>1
  <2>2. \A k \in 1..Len(included) : included[k] \in 1..Len(includer)
    BY DEF Split
  <2>3. \A f \in 2..(L - 1), k \in 1..M :
           IF k <= frames'[f].mark THEN included[k] < frames'[f].serial
                                   ELSE included[k] > frames'[f].serial
    BY <1>2, <1>3, <2>1 DEF Split
  <2>4. QED  BY <1>0, <1>2, <1>3, <2>2, <2>3 DEF Split
<1>6. Reached'
  <2>1. ASSUME NEW k \in 1..M
        PROVE  \/ includer[included'[k]] = 0
               \/ \E j \in 1..(k - 1) : included'[j] = includer[included'[k]]
               \/ \E f \in 1..(L - 1) : frames'[f].serial = includer[included'[k]]
    <3>1. k \in 1..Len(included) /\ included'[k] = included[k]
      BY <1>2
    <3>2. CASE includer[included[k]] = 0
      BY <3>1, <3>2
    <3>3. ASSUME NEW j \in 1..(k - 1), included[j] = includer[included[k]]
          PROVE  \E i \in 1..(k - 1) : included'[i] = includer[included'[k]]
      <4>1. j \in 1..M
        BY <1>1
      <4>2. QED  BY <1>2, <3>1, <3>3, <4>1
    <3>4. ASSUME NEW f \in 1..L, frames[f].serial = includer[included[k]]
          PROVE  \E g \in 1..(L - 1) : frames'[g].serial = includer[included'[k]]
      <4>1. includer[included[k]] < included[k] /\ included[k] \in 1..Len(includer)
        BY <3>1 DEF Numbered, Split
      <4>2. included[k] < Top.serial
        <5>1. L \in 2..L /\ Top = frames[L]
          BY <1>0, Ending
        <5>2. k <= frames[L].mark
          BY <1>1, <5>1
        <5>3. QED  BY <3>1, <5>1, <5>2 DEF Split
      <4>3. f # L
        <5>1. Top = frames[L] /\ Top.serial \in 1..Len(includer)
          BY <1>0, Ending
        <5>2. frames[f].serial < Top.serial
          <6>1. includer[included[k]] \in Nat
            BY <4>1 DEF FramesInv
          <6>2. Len(includer) \in Nat
            BY DEF FramesInv
          <6>3. QED  BY <3>4, <4>1, <4>2, <5>1, <6>1, <6>2
        <5>3. QED  BY <5>1, <5>2
      <4>4. f \in 1..(L - 1)
        BY <1>1, <4>3
      <4>5. QED  BY <1>3, <3>1, <3>4, <4>4
    <3>5. QED  BY <3>1, <3>2, <3>3, <3>4 DEF Reached
  <2>2. QED  BY <1>0, <1>2, <1>3, <2>1 DEF Reached
<1>7. Ordered'
  BY <1>2 DEF Ordered
<1>8. QED  BY <1>4, <1>5, <1>6, <1>7

\* A merged child is reported between what preceded it and its own children.
LEMMA MergeKeepsNest ==
    ASSUME FramesInv, NestInv, Merge
    PROVE  NestInv'
<1> USE DEF NestInv
<1> DEFINE M == Top.mark
           L == Len(frames)
           N == Len(included)
<1>0. ChildDone /\ frames' = Popped /\ includer' = includer
  BY DEF Merge
<1>1. /\ M \in 0..N /\ included \in Seq(Nat) /\ includer \in Seq(Nat)
      /\ N \in Nat /\ L \in Nat /\ L > 1 /\ M \in Nat /\ M <= N
  BY <1>0, PoppedFrames DEF FramesInv
<1>2. /\ Len(included') = N + 1
      /\ \A k \in 1..M : included'[k] = included[k]
      /\ included'[M + 1] = Top.serial
      /\ \A k \in (M + 2)..(N + 1) : included'[k] = included[k - 1]
  BY MergedReport
<1>3. /\ Len(frames') = L - 1
      /\ \A f \in 1..(L - 1) : /\ frames'[f] = frames[f] /\ frames[f].mark \in Nat
                               /\ frames[f].mark <= M
  BY <1>0, PoppedFrames
<1>4. /\ Top.serial \in 1..Len(includer) /\ Len(includer) \in Nat
      /\ L \in 2..L /\ Top = frames[L] /\ L - 1 \in 1..(L - 1)
      /\ includer[Top.serial] = frames[L - 1].serial
      /\ \A f \in 1..(L - 1) : frames[f].serial < Top.serial
  BY <1>0, <1>1, Ending
<1>5. \A k \in 1..N : included[k] \in 1..Len(includer)
  BY DEF Split
<1>6. /\ \A k \in 1..M : k \in 1..N /\ included[k] < Top.serial
      /\ \A k \in (M + 1)..N : k \in 1..N /\ included[k] > Top.serial
  <2>1. \A k \in 1..N : IF k <= M THEN included[k] < Top.serial ELSE included[k] > Top.serial
    BY <1>4 DEF Split
  <2>2. /\ \A k \in 1..M : k \in 1..N /\ k <= M
        /\ \A k \in (M + 1)..N : k \in 1..N /\ ~(k <= M)
    BY <1>1
  <2> HIDE DEF M, N
  <2>3. QED  BY <2>1, <2>2
<1> HIDE DEF M, L, N
\* The three places of the new report: before the child, the child, after it.
<1>7. \A k \in 1..(N + 1) : \/ k \in 1..M
                            \/ k = M + 1
                            \/ k \in (M + 2)..(N + 1) /\ k - 1 \in (M + 1)..N
  BY <1>1
<1>8. Numbered'
  BY <1>0, PopKeepsNumbered
<1>9. Split'
  <2>1. ASSUME NEW k \in 1..(N + 1)
        PROVE  included'[k] \in 1..Len(includer)
    <3>1. CASE k \in 1..M
      BY <1>2, <1>5, <1>6, <3>1
    <3>2. CASE k = M + 1
      BY <1>2, <1>4, <3>2
    <3>3. CASE k \in (M + 2)..(N + 1) /\ k - 1 \in (M + 1)..N
      BY <1>2, <1>5, <1>6, <3>3
    <3>4. QED  BY <1>7, <3>1, <3>2, <3>3
  <2>2. ASSUME NEW f \in 2..(L - 1), NEW k \in 1..(N + 1)
        PROVE  IF k <= frames'[f].mark THEN included'[k] < frames'[f].serial
                                       ELSE included'[k] > frames'[f].serial
    <3>1. f \in 2..L /\ f \in 1..(L - 1)
      BY <1>1
    <3>2. frames'[f] = frames[f] /\ frames[f].mark \in Nat /\ frames[f].mark <= M
            /\ frames[f].serial < Top.serial
      BY <1>3, <1>4, <3>1
    <3>3. \A i \in 1..N : IF i <= frames[f].mark THEN included[i] < frames[f].serial
                                                 ELSE included[i] > frames[f].serial
      BY <3>1 DEF Split, L, N
    <3>4. CASE k \in 1..M
      BY <1>2, <1>6, <3>2, <3>3, <3>4
    <3>5. CASE k = M + 1
      BY <1>1, <1>2, <3>2, <3>5
    <3>6. CASE k \in (M + 2)..(N + 1) /\ k - 1 \in (M + 1)..N
      <4>1. ~(k <= frames[f].mark) /\ ~(k - 1 <= frames[f].mark) /\ k - 1 \in 1..N
        BY <1>1, <1>6, <3>2, <3>6
      <4>2. included[k - 1] > frames[f].serial
        BY <3>3, <4>1
      <4>3. QED  BY <1>2, <3>2, <3>6, <4>1, <4>2
    <3>7. QED  BY <1>7, <3>4, <3>5, <3>6
  <2>3. QED  BY <1>0, <1>2, <1>3, <2>1, <2>2 DEF Split
<1>10. Reached'
  <2>1. ASSUME NEW k \in 1..(N + 1)
        PROVE  \/ includer[included'[k]] = 0
               \/ \E j \in 1..(k - 1) : included'[j] = includer[included'[k]]
               \/ \E f \in 1..(L - 1) : frames'[f].serial = includer[included'[k]]
    <3>1. CASE k = M + 1
      BY <1>2, <1>3, <1>4, <3>1
    <3>2. ASSUME NEW i \in 1..N, included'[k] = included[i],
                 i <= k, i > M => k = i + 1
          PROVE  \/ includer[included'[k]] = 0
                 \/ \E j \in 1..(k - 1) : included'[j] = includer[included'[k]]
                 \/ \E f \in 1..(L - 1) : frames'[f].serial = includer[included'[k]]
      <4>1. CASE includer[included[i]] = 0
        BY <3>2, <4>1
      <4>2. ASSUME NEW j \in 1..(i - 1), included[j] = includer[included[i]]
            PROVE  \E h \in 1..(k - 1) : included'[h] = includer[included'[k]]
        <5>1. CASE j <= M
          <6>1. j \in 1..M /\ j \in 1..(k - 1)
            BY <1>1, <3>2, <5>1
          <6>2. included'[j] = included[j]
            BY <1>2, <6>1
          <6>3. QED  BY <3>2, <4>2, <6>1, <6>2
        <5>2. CASE j > M
          <6>1. j + 1 \in (M + 2)..(N + 1) /\ j + 1 \in 1..(k - 1) /\ (j + 1) - 1 = j
            BY <1>1, <3>2, <5>2
          <6>2. included'[j + 1] = included[j]
            BY <1>2, <6>1
          <6>3. QED  BY <3>2, <4>2, <6>1, <6>2
        <5>3. QED  BY <1>1, <5>1, <5>2
      <4>3. ASSUME NEW f \in 1..L, frames[f].serial = includer[included[i]]
            PROVE  \/ \E j \in 1..(k - 1) : included'[j] = includer[included'[k]]
                   \/ \E g \in 1..(L - 1) : frames'[g].serial = includer[included'[k]]
        <5>1. CASE f # L
          <6>1. f \in 1..(L - 1)
            BY <1>1, <5>1
          <6>2. QED  BY <1>3, <3>2, <4>3, <6>1
        <5>2. CASE f = L
          <6>1. includer[included[i]] < included[i] /\ included[i] \in 1..Len(includer)
            BY <1>5 DEF Numbered
          <6>2. included[i] > Top.serial
            <7>1. Top.serial \in Nat /\ included[i] \in Nat
              BY <1>1, <1>4, <6>1
            <7>2. QED  BY <1>4, <4>3, <5>2, <6>1, <7>1
          <6>3. ~(i \in 1..M)
            <7>1. Top.serial \in Nat /\ included[i] \in Nat
              BY SMTT(30), <1>1, <1>4, <6>1
            <7>2. QED  BY <1>6, <6>2, <7>1
          <6>4. i > M /\ k = i + 1
            BY <1>1, <3>2, <6>3
          <6>5. M + 1 \in 1..(k - 1)
            BY <1>1, <6>4
          <6>6. QED  BY <1>2, <1>4, <3>2, <4>3, <5>2, <6>5
        <5>3. QED  BY <5>1, <5>2
      <4>4. \/ includer[included[i]] = 0
            \/ \E j \in 1..(i - 1) : included[j] = includer[included[i]]
            \/ \E f \in 1..L : frames[f].serial = includer[included[i]]
        BY DEF Reached, N, L
      <4>5. QED  BY <4>1, <4>2, <4>3, <4>4
    <3>3. CASE k \in 1..M
      <4>1. k \in 1..N /\ included'[k] = included[k] /\ k <= k /\ ~(k > M)
        BY <1>1, <1>2, <3>3
      <4>2. QED  BY <3>2, <4>1
    <3>4. CASE k \in (M + 2)..(N + 1) /\ k - 1 \in (M + 1)..N
      <4>1. k - 1 \in 1..N /\ included'[k] = included[k - 1] /\ k - 1 <= k /\ k = (k - 1) + 1
        BY <1>1, <1>2, <3>4
      <4>2. QED  BY <3>2, <4>1
    <3>5. QED  BY <1>7, <3>1, <3>3, <3>4
  <2>2. QED  BY <1>0, <1>2, <1>3, <2>1 DEF Reached
<1>11. Ordered'
  <2>1. \A i, j \in 1..N : i < j => included[i] < included[j]
    BY DEF Ordered, N
  <2>2. ASSUME NEW j \in 1..(N + 1), NEW k \in 1..(N + 1), j < k
        PROVE  included'[j] < included'[k]
    <3>0. \A i \in 1..N : included[i] \in Nat
      BY <1>1 DEF N
    <3>1. CASE j \in 1..M /\ k \in 1..M
      BY <1>2, <1>6, <2>1, <2>2, <3>1
    <3>2. CASE j \in 1..M /\ k = M + 1
      BY <1>2, <1>6, <3>2
    <3>3. CASE j \in 1..M /\ k \in (M + 2)..(N + 1) /\ k - 1 \in (M + 1)..N
      <4>1. j < k - 1 /\ j \in 1..N /\ k - 1 \in 1..N
        BY <1>1, <1>6, <3>3
      <4>2. QED  BY <1>2, <2>1, <3>3, <4>1
    <3>4. CASE j = M + 1 /\ k \in (M + 2)..(N + 1) /\ k - 1 \in (M + 1)..N
      <4>1. k - 1 \in 1..N /\ included[k - 1] > Top.serial
        BY <1>6, <3>4
      <4>2. Top.serial < included[k - 1]
        BY <1>1, <1>4, <3>0, <4>1
      <4>3. QED  BY <1>2, <3>4, <4>2
    <3>5. CASE /\ j \in (M + 2)..(N + 1) /\ j - 1 \in (M + 1)..N
               /\ k \in (M + 2)..(N + 1) /\ k - 1 \in (M + 1)..N
      <4>1. j - 1 < k - 1 /\ j - 1 \in 1..N /\ k - 1 \in 1..N
        BY <1>6, <2>2, <3>5
      <4>2. QED  BY <1>2, <2>1, <3>5, <4>1
    <3>6. \/ j \in 1..M /\ (k \in 1..M \/ k = M + 1 \/ k \in (M + 2)..(N + 1))
          \/ j = M + 1 /\ k \in (M + 2)..(N + 1)
          \/ j \in (M + 2)..(N + 1) /\ k \in (M + 2)..(N + 1)
      BY <1>1, <1>7, <2>2
    <3>7. k \in (M + 2)..(N + 1) => k - 1 \in (M + 1)..N
      BY <1>1
    <3>8. j \in (M + 2)..(N + 1) => j - 1 \in (M + 1)..N
      BY <1>1
    <3>9. QED  BY <3>1, <3>2, <3>3, <3>4, <3>5, <3>6, <3>7, <3>8
  <2>3. QED  BY <1>2, <2>2 DEF Ordered
<1>12. QED  BY <1>8, <1>9, <1>10, <1>11

\* Every step keeps the reports nested: one case per way of changing them.
LEMMA StepKeepsNest ==
    ASSUME IInv, NestInv, [Next]_vars
    PROVE  NestInv'
<1>0. FramesInv
  BY DEF IInv
<1>1. ASSUME AtDirective, frames' = Consumed, UNCHANGED inclusion PROVE NestInv'
  BY <1>0, <1>1, ConsumedKeepsNest
<1>2. CASE Refusing
  <2>1. AtDirective /\ frames' = Consumed /\ UNCHANGED inclusion
    BY <1>2 DEF Refusing, RefuseUnread, RefuseDepth, RefuseSpent, RefuseCalls, Refuse
  <2>2. QED  BY <1>1, <2>1
<1>3. CASE Reading
  <2>1. AtDirective /\ frames' = Consumed /\ UNCHANGED inclusion
    BY <1>3 DEF Reading, ReadDenied, ReadNonText, ReadBinary, ReadCycle, ReadOverBudget,
                Charge, Ask, Refuse
  <2>2. QED  BY <1>1, <2>1
<1>4. CASE Obtaining
  <2>1. ASSUME NEW t \in Target, NEW size \in Size,
               \/ \E rule \in OptionRule : ReadOptionsInvalid(t, size, rule)
               \/ \E rule \in SelectionRule : ReadSelectionFails(t, size, rule)
               \/ \E rule \in MalformedRule : ReadMalformed(t, size, rule)
        PROVE  NestInv'
    <3>1. AtDirective /\ frames' = Consumed /\ UNCHANGED inclusion
      BY <2>1 DEF ReadOptionsInvalid, ReadSelectionFails, ReadMalformed, Charge, Ask, Refuse
    <3>2. QED  BY <1>1, <3>1
  <2>2. QED  BY <1>0, <1>4, <2>1, EnterKeepsNest DEF Obtaining
<1>5. CASE Merge
  BY <1>0, <1>5, MergeKeepsNest
<1>6. CASE RejectBlockInInline
  BY <1>0, <1>6, RejectKeepsNest
<1>7. CASE Finish
  <2>1. /\ Len(frames) = 1 /\ frames # << >> /\ frames' = << >> /\ Len(frames') = 0
        /\ included' = included /\ includer' = includer
    BY <1>7 DEF Finish, inclusion
  <2>2. \A f \in 1..Len(frames) : frames[f].serial = 0
    BY <2>1 DEF NestInv, Numbered
  <2>3. QED  BY <2>1, <2>2 DEF NestInv, Numbered, Split, Reached, Ordered
<1>8. CASE UNCHANGED vars
  BY <1>8 DEF vars, inclusion, NestInv, Numbered, Split, Reached, Ordered
<1>9. QED
  BY <1>2, <1>3, <1>4, <1>5, <1>6, <1>7, <1>8 DEF Next, Done

\* No reported inclusion outlives the one that reached it, and the reports are in
\* the order of the document, however children are merged and rejected.
THEOREM ReportsAreNested == Spec => []ReportsNest
<1>1. IInv /\ NestInv => ReportsNest
  BY NestGivesReports DEF IInv, FramesInv, NestInv
<1>2. IInv /\ NestInv /\ [Next]_vars => NestInv'
  BY StepKeepsNest
<1>3. QED
  BY <1>1, <1>2, Invariant, InitNest, PTL DEF Spec

=============================================================================
