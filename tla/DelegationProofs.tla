---------------------------- MODULE DelegationProofs ----------------------------
(***************************************************************************)
(* Theorems about Delegation, for every set of calls, processes,           *)
(* repositories and arguments.                                             *)
(***************************************************************************)
EXTENDS Delegation, TLAPS

-----------------------------------------------------------------------------
(* The inductive invariant.                                                *)

(* The durable claims never overlap.                                       *)
ClaimsAreDisjoint ==
    \A c, d \in claims : c # d => repository(c) # repository(d)

(* A call that was dispatched holds its claim until it is over.            *)
DispatchedIsClaimed ==
    \A c \in Call : pc[c] \in Underway \ {"preparing"} => c \in claims

(* A Peer runs in an open workspace, which no call has before it creates   *)
(* one.                                                                    *)
PeerHasWorkspace ==
    \A c \in Call : /\ peer[c] => workspace[c] = "open"
                    /\ pc[c] \in {"idle", "preparing"} => workspace[c] = "none"
                    /\ pc[c] = "creating" => ~peer[c]

(* A call that has begun resumes only a session of its repository.         *)
ResumesAtHome ==
    \A c \in Call : pc[c] # "idle" \/ peer[c] =>
        \A s \in Resumed(c) : s \in Call /\ repository(s) = repository(c)

IInv ==
    /\ TypeOK
    /\ ClaimsAreDisjoint
    /\ DispatchedIsClaimed
    /\ PeerHasWorkspace
    /\ PeerIsClaimed
    /\ ResumesAtHome

-----------------------------------------------------------------------------
LEMMA InitIInv == Init => IInv
<1> SUFFICES ASSUME Init PROVE IInv
  OBVIOUS
<1>1. TypeOK
  BY DEF Init, TypeOK, Result
<1> QED
  BY <1>1 DEF Init, IInv, ClaimsAreDisjoint, DispatchedIsClaimed, PeerHasWorkspace,
              PeerIsClaimed, ResumesAtHome, Underway

(* The steps of a call that leave claims and workspaces alone.             *)
LEMMA QuietStepKeeps ==
    ASSUME IInv, TypeOK', UNCHANGED <<args, claims, herdr>>,
           \A c \in Call :
               \/ pc'[c] = pc[c]
               \/ pc'[c] \in Over /\ pc[c] # "idle"
               \/ pc[c] = "idle" /\ pc'[c] = "preparing" /\ MayResume(c)
               \/ pc[c] = "creating" /\ pc'[c] = "starting"
               \/ /\ pc[c] \in {"starting", "working", "capturing"}
                  /\ pc'[c] \in {"working", "capturing", "closing"}
    PROVE  IInv'
<1> USE DEF IInv
<1>1. ClaimsAreDisjoint' /\ PeerIsClaimed'
  BY DEF ClaimsAreDisjoint, PeerIsClaimed, repository, herdr
<1>2. DispatchedIsClaimed'
  BY DEF DispatchedIsClaimed, Over, Underway
<1>3. PeerHasWorkspace'
  BY DEF PeerHasWorkspace, herdr, Over
<1>4. ResumesAtHome'
  <2>1. ASSUME NEW c \in Call, MayResume(c), NEW s \in Resumed(c)
        PROVE  s \in Call /\ repository(s) = repository(c)
    BY <2>1 DEF MayResume, TypeOK
  <2>2. \A c \in Call : Resumed(c)' = Resumed(c) /\ repository(c)' = repository(c)
    BY DEF Resumed, repository
  <2> QED
    BY <2>1, <2>2 DEF ResumesAtHome, Over, herdr
<1> QED
  BY <1>1, <1>2, <1>3, <1>4

(* The steps that give a claim up, when no Peer is left under it.          *)
LEMMA ReleaseStepKeeps ==
    ASSUME IInv, TypeOK', NEW c \in Call, ~peer[c],
           pc[c] \in Underway \cup Over, pc'[c] \in Over,
           claims' \in {claims, claims \ {c}}, UNCHANGED <<args, herdr>>,
           \A d \in Call \ {c} : pc'[d] = pc[d]
    PROVE  IInv'
<1> USE DEF IInv
<1>1. ClaimsAreDisjoint' /\ PeerIsClaimed'
  BY DEF ClaimsAreDisjoint, PeerIsClaimed, repository, herdr
<1>2. DispatchedIsClaimed'
  BY DEF DispatchedIsClaimed, Over, Underway
<1>3. PeerHasWorkspace'
  BY DEF PeerHasWorkspace, herdr, Over
<1>4. ResumesAtHome'
  BY DEF ResumesAtHome, Over, Underway, Resumed, repository, herdr
<1> QED
  BY <1>1, <1>2, <1>3, <1>4

(* The claim itself: require_repository_clear makes it disjoint.           *)
LEMMA ClaimStepKeeps ==
    ASSUME IInv, TypeOK', NEW c \in Call, pc[c] = "preparing", RepositoryClear(c),
           claims' \in {claims, claims \cup {c}}, UNCHANGED <<args, herdr>>,
           \/ pc'[c] = "creating" /\ c \in claims'
           \/ pc'[c] \in Over,
           \A d \in Call \ {c} : pc'[d] = pc[d]
    PROVE  IInv'
<1> USE DEF IInv
<1>1. ClaimsAreDisjoint'
  BY DEF ClaimsAreDisjoint, RepositoryClear, repository
<1>2. DispatchedIsClaimed' /\ PeerIsClaimed'
  BY DEF DispatchedIsClaimed, PeerIsClaimed, Over, Underway, herdr
<1>3. PeerHasWorkspace'
  BY DEF PeerHasWorkspace, herdr, Over
<1>4. ResumesAtHome'
  BY DEF ResumesAtHome, Resumed, repository, herdr
<1> QED
  BY <1>1, <1>2, <1>3, <1>4

(* What Herdr does.                                                        *)
LEMMA HerdrStepKeeps ==
    ASSUME IInv, TypeOK', NEW c \in Call, UNCHANGED <<args, pc, claims>>,
           \/ HerdrCreates(c) \/ HerdrStarts(c) \/ HerdrCloses(c) \/ OperatorCloses(c)
    PROVE  IInv'
<1> USE DEF IInv, HerdrCreates, HerdrStarts, HerdrCloses, OperatorCloses, Closed, Over
<1>1. ClaimsAreDisjoint' /\ DispatchedIsClaimed'
  BY DEF ClaimsAreDisjoint, DispatchedIsClaimed, repository
<1>2. PeerIsClaimed'
  BY DEF PeerIsClaimed, DispatchedIsClaimed, Underway, TypeOK
<1>3. PeerHasWorkspace'
  BY DEF PeerHasWorkspace, TypeOK
<1>4. ResumesAtHome'
  BY DEF ResumesAtHome, Resumed, repository, TypeOK
<1> QED
  BY <1>1, <1>2, <1>3, <1>4

-----------------------------------------------------------------------------
(* Types.                                                                  *)
LEMMA TypeStep == TypeOK /\ [Next]_vars => TypeOK'
<1> SUFFICES ASSUME TypeOK, [Next]_vars PROVE TypeOK'
  OBVIOUS
<1> USE DEF callVars, memory, ledger, herdr, outcome, Goto, Returns, Underway, Over, Result
<1>1. ASSUME NEW c \in Call,
             \/ Prepare(c) \/ Refuse(c) \/ Dispatch(c)
             \/ CreateReturns(c) \/ StartReturns(c) \/ WorkFails(c)
      PROVE  TypeOK'
  <2>1. args[c].session \in Call \cup {NoSession} /\ args[c].repository \in Repository
    BY CallAssumption DEF TypeOK, Argument
  <2>2. CASE Dispatch(c)
    BY <2>1, <2>2 DEF TypeOK, Dispatch, process, repository, Resumed
  <2>3. CASE Prepare(c) \/ Refuse(c) \/ CreateReturns(c) \/ StartReturns(c) \/ WorkFails(c)
    BY <2>3 DEF TypeOK, Prepare, Refuse, CreateReturns, StartReturns, WorkFails
  <2> QED
    BY <1>1, <2>2, <2>3
<1>2. ASSUME NEW c \in Call, NEW b \in BOOLEAN, DispatchFails(c, b)
      PROVE  TypeOK'
  BY <1>2 DEF TypeOK, DispatchFails
<1>3. ASSUME NEW c \in Call,
             HerdrCreates(c) \/ HerdrStarts(c) \/ HerdrCloses(c) \/ OperatorCloses(c)
      PROVE  TypeOK'
  BY <1>3 DEF TypeOK, HerdrCreates, HerdrStarts, HerdrCloses, OperatorCloses, Closed
<1>4. ASSUME NEW c \in Call, NEW b \in BOOLEAN, NEW v \in Result, Release(c, b, v)
      PROVE  TypeOK'
  BY <1>4 DEF TypeOK, Release, ReleaseGuard, CleanupFails
<1>5. ASSUME NEW c \in Call, NEW b \in BOOLEAN,
             CreateFails(c, b) \/ CloseReturns(c, b) \/ CancelCreating(c, b)
      PROVE  TypeOK'
  <2>1. result[c] \in Result /\ "error" \in Result /\ "cancelled" \in Result
    BY DEF TypeOK
  <2> QED
    BY <1>4, <1>5, <2>1 DEF CreateFails, CloseReturns, CancelCreating
<1>6. ASSUME NEW c \in Call, CloseFails(c)
      PROVE  TypeOK'
  BY <1>6 DEF TypeOK, CloseFails, ReleaseGuard, CleanupFails
<1>7. ASSUME NEW c \in Call, NEW v \in Result,
             Settles(c) \/ Blocks(c, v) \/ Captures(c, v)
      PROVE  TypeOK'
  <2>1. Native(c) \in Call
    BY CallAssumption DEF Native, TypeOK, Argument
  <2> QED
    BY <1>7, <2>1 DEF TypeOK, Settles, Blocks, Captures
<1>8. ASSUME NEW c \in Call, CancelPreparing(c) \/ CancelWork(c) \/ CancelClosing(c)
      PROVE  TypeOK'
  BY <1>8 DEF TypeOK, CancelPreparing, CancelWork, CancelClosing
<1>9. ASSUME NEW p \in Process, Crash(p)
      PROVE  TypeOK'
  BY <1>9 DEF TypeOK, Crash
<1>10. ASSUME NEW p \in Process, NEW c \in Call, Recover(p, c)
       PROVE  TypeOK'
  BY <1>10 DEF TypeOK, Recover
<1>11. CASE UNCHANGED vars
  BY <1>11 DEF TypeOK, vars
<1> QED
  BY <1>1, <1>2, <1>3, <1>5, <1>6, <1>7, <1>8, <1>9, <1>10, <1>11 DEF Next

-----------------------------------------------------------------------------
(* Every step, or none, keeps the invariant.                               *)
LEMMA StepIInv == IInv /\ [Next]_vars => IInv'
<1> SUFFICES ASSUME IInv, [Next]_vars PROVE IInv'
  OBVIOUS
<1> USE DEF callVars, memory, ledger, herdr, outcome, Goto
<1>1. TypeOK'
  BY TypeStep DEF IInv
<1>2. pc \in [Call -> {"idle"} \cup Underway \cup Over]
  BY DEF IInv, TypeOK
<1>3. ASSUME NEW c \in Call,
             \/ Prepare(c) \/ Refuse(c) \/ CreateReturns(c) \/ StartReturns(c) \/ WorkFails(c)
             \/ CloseFails(c) \/ CancelPreparing(c) \/ CancelWork(c) \/ CancelClosing(c)
             \/ Settles(c) \/ \E v \in Result : Blocks(c, v) \/ Captures(c, v)
      PROVE  IInv'
  <2>1. /\ UNCHANGED <<args, claims, herdr>>
        /\ \A d \in Call \ {c} : pc'[d] = pc[d]
        /\ \/ pc'[c] \in Over /\ pc[c] # "idle"
           \/ pc[c] = "idle" /\ pc'[c] = "preparing" /\ MayResume(c)
           \/ pc[c] = "creating" /\ pc'[c] = "starting"
           \/ /\ pc[c] \in {"starting", "working", "capturing"}
                  /\ pc'[c] \in {"working", "capturing", "closing"}
    BY <1>2, <1>3 DEF Prepare, Refuse, CreateReturns, StartReturns, WorkFails, CloseFails,
                      CancelPreparing, CancelWork, CancelClosing, Settles, Blocks,
                      Captures, Over
  <2> QED
    BY <1>1, <2>1, QuietStepKeeps
<1>4. ASSUME NEW p \in Process, Crash(p)
      PROVE  IInv'
  <2>1. /\ UNCHANGED <<args, claims, herdr>>
        /\ \A c \in Call : pc'[c] = pc[c] \/ (pc'[c] \in Over /\ pc[c] # "idle")
    BY <1>2, <1>4 DEF Crash, Over, Underway
  <2> QED
    BY <1>1, <2>1, QuietStepKeeps
<1>5. ASSUME NEW c \in Call, NEW b \in BOOLEAN, Dispatch(c) \/ DispatchFails(c, b)
      PROVE  IInv'
  <2>1. /\ UNCHANGED <<args, herdr>> /\ pc[c] = "preparing" /\ RepositoryClear(c)
        /\ claims' \in {claims, claims \cup {c}}
        /\ \A d \in Call \ {c} : pc'[d] = pc[d]
        /\ \/ pc'[c] = "creating" /\ c \in claims'
           \/ pc'[c] \in Over
    BY <1>2, <1>5 DEF Dispatch, DispatchFails, Over
  <2> QED
    BY <1>1, <2>1, ClaimStepKeeps
<1>6. ASSUME NEW c \in Call, NEW b \in BOOLEAN,
             CreateFails(c, b) \/ CloseReturns(c, b) \/ CancelCreating(c, b)
      PROVE  IInv'
  <2>1. /\ UNCHANGED <<args, herdr>> /\ claims' \in {claims, claims \ {c}}
        /\ pc[c] \in {"creating", "closing"} /\ pc'[c] \in Over
        /\ pc[c] = "closing" => workspace[c] = "closed"
        /\ \A d \in Call \ {c} : pc'[d] = pc[d]
    BY <1>2, <1>6 DEF CreateFails, CloseReturns, CancelCreating, Release, Over
  <2>2. ~peer[c] /\ pc[c] \in Underway \cup Over
    BY <2>1 DEF IInv, PeerHasWorkspace, Underway
  <2> QED
    BY <1>1, <2>1, <2>2, ReleaseStepKeeps
<1>7. ASSUME NEW p \in Process, NEW c \in Call, Recover(p, c)
      PROVE  IInv'
  <2>1. /\ UNCHANGED <<args, herdr, pc>> /\ claims' = claims \ {c}
        /\ pc[c] \in Over /\ workspace[c] # "open"
    BY <1>7 DEF Recover, Verified
  <2>2. ~peer[c]
    BY <2>1 DEF IInv, PeerHasWorkspace
  <2> QED
    BY <1>1, <2>1, <2>2, ReleaseStepKeeps
<1>8. ASSUME NEW c \in Call,
             HerdrCreates(c) \/ HerdrStarts(c) \/ HerdrCloses(c) \/ OperatorCloses(c)
      PROVE  IInv'
  <2>1. UNCHANGED <<args, pc, claims>>
    BY <1>8 DEF HerdrCreates, HerdrStarts, HerdrCloses, OperatorCloses
  <2> QED
    BY <1>1, <1>8, <2>1, HerdrStepKeeps
<1>9. CASE UNCHANGED vars
  BY <1>1, <1>9, QuietStepKeeps DEF vars
<1> QED
  BY <1>3, <1>4, <1>5, <1>6, <1>7, <1>8, <1>9 DEF Next

(* Every reachable state satisfies the invariant.                          *)
LEMMA Invariance == Spec => []IInv
BY InitIInv, StepIInv, PTL DEF Spec

(* Every variable keeps its type.                                          *)
THEOREM TypeCorrect == Spec => []TypeOK
<1>1. IInv => TypeOK
  BY DEF IInv
<1> QED
  BY <1>1, Invariance, PTL

(* A Peer works only under the durable claim of its call.                  *)
THEOREM PeerAlwaysClaimed == Spec => []PeerIsClaimed
<1>1. IInv => PeerIsClaimed
  BY DEF IInv
<1> QED
  BY <1>1, Invariance, PTL

(* Two Peers never work in one repository: each is under a claim, and      *)
(* claims are disjoint.                                                    *)
THEOREM OneWriterOnly == Spec => []OneWriter
<1>1. IInv => OneWriter
  BY DEF IInv, PeerIsClaimed, ClaimsAreDisjoint, OneWriter
<1> QED
  BY <1>1, Invariance, PTL

(* Two Peers never drive one session: it would put them in one repository. *)
THEOREM OneSessionDriverOnly == Spec => []OneSessionDriver
<1>1. IInv => OneSessionDriver
  <2> SUFFICES ASSUME IInv, NEW c \in Call, NEW d \in Call, peer[c], peer[d], c # d,
                      Native(c) = Native(d)
               PROVE  FALSE
    BY DEF OneSessionDriver
  <2>1. repository(Native(c)) = repository(c) /\ repository(Native(d)) = repository(d)
    BY DEF IInv, ResumesAtHome, Native, Resumed
  <2>2. repository(c) # repository(d)
    BY DEF IInv, PeerIsClaimed, ClaimsAreDisjoint
  <2> QED
    BY <2>1, <2>2
<1> QED
  BY <1>1, Invariance, PTL

-----------------------------------------------------------------------------
(* What calls answer.                                                      *)

(* A turn is recorded last, and its call returns it; a call has no durable *)
(* claim before its dispatch.                                              *)
Answers(c) ==
    /\ c \in turns => pc[c] \in {"closing"} \cup Over
    /\ c \in turns /\ pc[c] = "closing" => result[c] = "captured"
    /\ c \in claims => pc[c] \notin {"idle", "preparing"}
    /\ pc[c] = "ended" =>
          /\ c \in turns => result[c] \in {"captured", "cancelled"}
          /\ c \in claims => c \in unconfirmed \/ result[c] \in {"cancelled", "refused"}

(* A step of another call, of Herdr or of the operator.                    *)
LEMMA OtherStepKeepsAnswers ==
    ASSUME NEW c \in Call, Answers(c),
           pc'[c] = pc[c], result'[c] = result[c],
           c \in turns' <=> c \in turns, c \in claims' => c \in claims,
           c \in unconfirmed => c \in unconfirmed'
    PROVE  Answers(c)'
BY DEF Answers

(* A step of the call itself.                                              *)
LEMMA OwnStepKeepsAnswers ==
    ASSUME TypeOK, NEW c \in Call, Answers(c),
           \/ Prepare(c) \/ Refuse(c) \/ Dispatch(c)
           \/ \E b \in BOOLEAN : DispatchFails(c, b)
           \/ \E b \in BOOLEAN : CreateFails(c, b) \/ CloseReturns(c, b) \/ CancelCreating(c, b)
           \/ CreateReturns(c) \/ StartReturns(c) \/ WorkFails(c) \/ CloseFails(c)
           \/ Settles(c)
           \/ \E v \in Result : Blocks(c, v) \/ Captures(c, v)
           \/ CancelPreparing(c) \/ CancelWork(c) \/ CancelClosing(c)
    PROVE  Answers(c)'
<1> USE DEF TypeOK, Answers, Goto, Returns, Over, Underway, Result, ledger, outcome
<1>1. CASE Prepare(c) \/ Refuse(c) \/ Dispatch(c) \/ \E b \in BOOLEAN : DispatchFails(c, b)
  BY <1>1 DEF Prepare, Refuse, Dispatch, DispatchFails
<1>2. CASE \E b \in BOOLEAN : CreateFails(c, b) \/ CloseReturns(c, b) \/ CancelCreating(c, b)
  BY <1>2 DEF CreateFails, CloseReturns, CancelCreating, Release, CleanupFails
<1>3. CASE CreateReturns(c) \/ StartReturns(c) \/ WorkFails(c) \/ CloseFails(c) \/ Settles(c)
  BY <1>3 DEF CreateReturns, StartReturns, WorkFails, CloseFails, CleanupFails, Settles
<1>4. CASE \E v \in Result : Blocks(c, v) \/ Captures(c, v)
  BY <1>4 DEF Blocks, Captures
<1>5. CASE CancelPreparing(c) \/ CancelWork(c) \/ CancelClosing(c)
  BY <1>5 DEF CancelPreparing, CancelWork, CancelClosing
<1> QED
  BY <1>1, <1>2, <1>3, <1>4, <1>5

LEMMA StepKeepsAnswers ==
    ASSUME TypeOK, \A c \in Call : Answers(c), [Next]_vars
    PROVE  \A c \in Call : Answers(c)'
<1> TAKE c \in Call
<1> USE DEF TypeOK, Goto, Returns, ledger, outcome, callVars
<1>1. ASSUME NEW d \in Call,
             \/ Prepare(d) \/ Refuse(d) \/ Dispatch(d)
             \/ \E b \in BOOLEAN : DispatchFails(d, b)
             \/ \E b \in BOOLEAN : CreateFails(d, b) \/ CloseReturns(d, b) \/ CancelCreating(d, b)
             \/ CreateReturns(d) \/ StartReturns(d) \/ WorkFails(d) \/ CloseFails(d)
             \/ Settles(d)
             \/ \E v \in Result : Blocks(d, v) \/ Captures(d, v)
             \/ CancelPreparing(d) \/ CancelWork(d) \/ CancelClosing(d)
      PROVE  Answers(c)'
  <2>1. CASE c = d
    BY <1>1, <2>1, OwnStepKeepsAnswers
  <2>2. CASE c # d
    <3>1. /\ pc'[c] = pc[c] /\ result'[c] = result[c]
          /\ c \in turns' <=> c \in turns
          /\ c \in claims' => c \in claims
          /\ c \in unconfirmed => c \in unconfirmed'
      BY <1>1, <2>2 DEF Prepare, Refuse, Dispatch, DispatchFails, CreateFails, CloseReturns,
                        CancelCreating, Release, CleanupFails, CreateReturns, StartReturns,
                        WorkFails, CloseFails, Settles, Blocks, Captures, CancelPreparing,
                        CancelWork, CancelClosing
    <3> QED
      BY <3>1, OtherStepKeepsAnswers
  <2> QED
    BY <2>1, <2>2
<1>2. ASSUME NEW d \in Call, HerdrCreates(d) \/ HerdrStarts(d) \/ HerdrCloses(d) \/ OperatorCloses(d)
      PROVE  Answers(c)'
  BY <1>2, OtherStepKeepsAnswers DEF HerdrCreates, HerdrStarts, HerdrCloses, OperatorCloses
<1>3. ASSUME NEW p \in Process, Crash(p)
      PROVE  Answers(c)'
  BY <1>3 DEF Crash, Answers, Over, Underway
<1>4. ASSUME NEW p \in Process, NEW d \in Call, Recover(p, d)
      PROVE  Answers(c)'
  BY <1>4, OtherStepKeepsAnswers DEF Recover
<1>5. CASE UNCHANGED vars
  BY <1>5, OtherStepKeepsAnswers DEF vars
<1> QED
  BY <1>1, <1>2, <1>3, <1>4, <1>5 DEF Next

(* A call answers with the turn it captured, and explains the claim it     *)
(* leaves behind.                                                          *)
THEOREM AnswersAlwaysTellAll == Spec => []AnswersTellAll
<1> DEFINE AInv == \A c \in Call : Answers(c)
<1>1. Init => AInv
  BY DEF Init, Answers, Over
<1>2. TypeOK /\ AInv /\ [Next]_vars => AInv'
  BY StepKeepsAnswers
<1>3. AInv => AnswersTellAll
  BY DEF Answers, AnswersTellAll
<1> HIDE DEF AInv
<1> QED
  BY <1>1, <1>2, <1>3, TypeCorrect, PTL DEF Spec
=============================================================================
