--------------------------- MODULE ResultCaptureProofs ---------------------------
(***************************************************************************)
(* Theorems about ResultCapture, for any responses, lengths, thresholds,   *)
(* deadlines and number of events.                                         *)
(***************************************************************************)
EXTENDS ResultCapture, FiniteSetTheorems, WellFoundedInduction, TLAPS

-----------------------------------------------------------------------------
(* The greatest of finitely many numbers: a smallest set without one would *)
(* still have none without one of its members.                             *)
LEMMA Greatest ==
    ASSUME NEW S, S \subseteq Nat, S # {}, IsFiniteSet(S)
    PROVE  \E m \in S : \A n \in S : m >= n
<1> DEFINE Bad == {T \in FiniteSubsetsOf(Nat) : T # {} /\ \A m \in T : \E n \in T : ~(m >= n)}
<1> SUFFICES ASSUME ~\E m \in S : \A n \in S : m >= n PROVE FALSE
  OBVIOUS
<1>1. S \in Bad /\ Bad \subseteq FiniteSubsetsOf(Nat)
  BY DEF FiniteSubsetsOf
<1>2. IsWellFoundedOn(StrictSubsetOrdering(Nat), FiniteSubsetsOf(Nat))
  BY FS_StrictSubsetOrderingWellFounded
<1> HIDE DEF Bad
<1>3. PICK T \in Bad : \A U \in Bad : <<U, T>> \notin StrictSubsetOrdering(Nat)
  BY <1>1, <1>2, WFMin
<1> USE DEF Bad
<1>4. /\ T \subseteq Nat /\ IsFiniteSet(T) /\ T # {}
      /\ \A m \in T : \E n \in T : ~(m >= n)
  BY <1>3 DEF FiniteSubsetsOf
<1>5. PICK a \in T : TRUE
  BY <1>4
<1> DEFINE U == T \ {a}
<1>6. U \in FiniteSubsetsOf(Nat) /\ <<U, T>> \in StrictSubsetOrdering(Nat)
  <2>1. IsFiniteSet(U)
    BY <1>4, FS_Subset
  <2>2. U \subseteq T /\ U # T
    BY <1>5
  <2> QED
    BY <1>4, <2>1, <2>2 DEF FiniteSubsetsOf, StrictSubsetOrdering
<1>7. U \notin Bad
  BY <1>3, <1>6
<1>8. U # {}
  <2>1. PICK n \in T : ~(a >= n)
    BY <1>4, <1>5
  <2>2. n # a
    BY <1>4, <1>5, <2>1
  <2> QED
    BY <2>1, <2>2
<1>9. PICK m \in U : \A n \in U : m >= n
  BY <1>6, <1>7, <1>8
<1>10. m \in Nat /\ a \in Nat /\ \A n \in T : n \in Nat /\ (n = a \/ m >= n)
  BY <1>4, <1>5, <1>9
<1>11. CASE m >= a
  BY <1>4, <1>9, <1>10, <1>11
<1>12. CASE ~(m >= a)
  <2>1. \A n \in T : a >= n
    BY <1>10, <1>12
  <2> QED
    BY <1>4, <1>5, <2>1
<1> QED
  BY <1>11, <1>12

LEMMA MaxIsGreatest ==
    ASSUME NEW S, S \subseteq Nat, S # {}, IsFiniteSet(S)
    PROVE  Max(S) \in S /\ \A n \in S : Max(S) >= n
BY Greatest DEF Max

(* FS_Image with the function that gives the image.                        *)
LEMMA ImageIsFinite ==
    ASSUME NEW S, IsFiniteSet(S), NEW f, f = [x \in S |-> f[x]]
    PROVE  IsFiniteSet({f[x] : x \in S})
<1> DEFINE T == {f[x] : x \in S}
<1>1. f \in Surjection(S, T)
  BY DEF Surjection
<1> QED
  BY <1>1, FS_Surjection

LEMMA SomethingToSay == Whatever \in Response
BY CaptureAssumption DEF Whatever

LEMMA EventTypes ==
    /\ Normalized("native") \subseteq Event
    /\ HookFailure("unknown") \in Event /\ HookFailure("other") \in Event
    /\ [state |-> "settled", session |-> "other", response |-> Whatever] \in Event
BY SomethingToSay DEF Normalized, HookFailure, Event

-----------------------------------------------------------------------------
(* Types                                                                   *)

Places == \E places \in SUBSET (1..Len(sink)) : review \in [places -> Response]

LEMMA PlacesGrow ==
    ASSUME TypeOK, Len(sink') \in Nat, Len(sink') >= Len(sink), UNCHANGED <<latest, review>>
    PROVE  Places' /\ latest' \in 0..Len(sink')
<1>1. Len(sink) \in Nat
  BY DEF TypeOK
<1>2. PICK places \in SUBSET (1..Len(sink)) : review \in [places -> Response]
  BY DEF TypeOK
<1>3. places \in SUBSET (1..Len(sink'))
  BY <1>1, <1>2
<1> QED
  BY <1>1, <1>2, <1>3 DEF TypeOK, Places

LEMMA AgentTypes ==
    ASSUME TypeOK, Agent
    PROVE  TypeOK'
<1>1. UNCHANGED <<phase, timer, latest, outcome, result, review>> /\ moved' \in BOOLEAN
  <2>1. Lives
    BY DEF Agent, TakesPrompt, GoesOn, Blocks, HookWrites, HookFails, Stops, OtherWrites
  <2> DEFINE b == phase = "recovering" /\ (moved \/ status' # status)
  <2>2. b \in BOOLEAN /\ moved' = b
    BY <2>1 DEF Lives
  <2> HIDE DEF b
  <2> QED
    BY <2>1, <2>2 DEF Lives, ended
<1>2. status' \in {"quiet", "working", "blocked"} /\ submitted' \in BOOLEAN
  BY DEF Agent, TakesPrompt, GoesOn, Blocks, HookWrites, HookFails, Stops, OtherWrites, TypeOK
<1>3. hook' \in Seq(Event) /\ Len(hook') <= 1
  <2>0. CASE UNCHANGED hook
    BY <2>0 DEF TypeOK
  <2>1. CASE hook' = <<>>
    <3>1. <<>> \in Seq(Event) /\ Len(<<>>) = 0
      OBVIOUS
    <3> QED
      BY <2>1, <3>1
  <2>2. ASSUME NEW e \in Event, hook' = <<e>>
        PROVE  hook' \in Seq(Event) /\ Len(hook') <= 1
    BY <2>2
  <2> QED
    BY <2>0, <2>1, <2>2, EventTypes
       DEF Agent, TakesPrompt, GoesOn, Blocks, HookWrites, HookFails, Stops, OtherWrites
<1>4. sink' \in Seq(Event) /\ Len(sink') >= Len(sink)
  <2>1. CASE UNCHANGED sink
    BY <2>1 DEF TypeOK
  <2>2. CASE sink' = sink \o hook
    BY <2>2 DEF TypeOK
  <2>3. ASSUME NEW e \in Event, sink' = Append(sink, e)
        PROVE  sink' \in Seq(Event) /\ Len(sink') >= Len(sink)
    BY <2>3 DEF TypeOK
  <2> QED
    BY <2>1, <2>2, <2>3, EventTypes
       DEF Agent, TakesPrompt, GoesOn, Blocks, HookWrites, HookFails, Stops, OtherWrites
<1>5. Places' /\ latest' \in 0..Len(sink')
  BY <1>1, <1>4, PlacesGrow
<1> QED
  BY <1>1, <1>2, <1>3, <1>4, <1>5 DEF TypeOK, Places

LEMMA EndTypes ==
    ASSUME TypeOK, NEW how, NEW response \in Response \cup {Nothing}, Ends(how, response),
           how \in {"blocked", "settled", "failed", "ambiguous", "error"}, Places'
    PROVE  TypeOK'
<1>1. Len(sink') \in Nat /\ sink' \in Seq(Event)
  BY DEF Ends, TypeOK
<1>2. hook' \in Seq(Event) /\ Len(hook') <= 1
  <2>1. <<>> \in Seq(Event) /\ Len(<<>>) = 0
    OBVIOUS
  <2> QED
    BY <2>1 DEF Ends
<1>3. 0 \in 0..(ResultWait + PendingWait) /\ 0 \in 0..Len(sink')
  BY <1>1, CaptureAssumption
<1> QED
  BY <1>1, <1>2, <1>3 DEF Ends, TypeOK, Places

LEMMA StillPlaced == TypeOK /\ UNCHANGED <<sink, review>> => Places'
BY DEF TypeOK, Places

LEMMA RaiseTypes == TypeOK /\ Raises => TypeOK'
<1> SUFFICES ASSUME TypeOK, Raises PROVE TypeOK'
  OBVIOUS
<1>1. Places'
  BY StillPlaced DEF Raises, Ends
<1> QED
  BY <1>1, EndTypes DEF Raises

LEMMA SettleTypes ==
    ASSUME TypeOK, NEW seen, SettlesWith(seen)
    PROVE  TypeOK'
<1>1. CASE Ends("blocked", Nothing) /\ UNCHANGED review
  <2>1. Places'
    BY <1>1, StillPlaced DEF Ends
  <2> QED
    BY <1>1, <2>1, EndTypes
<1>2. CASE phase' = "capture" /\ timer' = ResultWait /\ UNCHANGED <<agent, latest, ended>>
  <2>1. ResultWait \in 0..(ResultWait + PendingWait)
    BY CaptureAssumption
  <2> QED
    BY <1>2, <2>1 DEF TypeOK, agent, ended
<1> QED
  BY <1>1, <1>2 DEF SettlesWith

LEMMA PromptTypes ==
    ASSUME TypeOK, Prompts
    PROVE  TypeOK'
<1>1. CASE PromptReturns \/ StalledSettled \/ WaitSettles
  BY <1>1, SettleTypes DEF PromptReturns, StalledSettled, WaitSettles
<1>2. CASE PromptFails \/ StaysStalled
  BY <1>2, RaiseTypes DEF PromptFails, StaysStalled
<1>3. CASE PromptStalls \/ StalledWorks \/ StalledIdle \/ SeesActivity
  BY <1>3 DEF PromptStalls, StalledWorks, StalledIdle, SeesActivity, TypeOK, agent, ended
<1> QED
  BY <1>1, <1>2, <1>3 DEF Prompts

-----------------------------------------------------------------------------
(* What was said.                                                          *)

LEMMA MatchingEvents ==
    ASSUME TypeOK
    PROVE  /\ Matching \subseteq 1..Len(sink) /\ Matching \subseteq Nat /\ IsFiniteSet(Matching)
           /\ \A i \in Matching : Said(i) \in Response /\ Size(i) \in Nat
           /\ Stopped \subseteq Matching /\ IsFiniteSet(Stopped)
           /\ IsFiniteSet({Said(i) : i \in Stopped}) /\ IsFiniteSet({Size(i) : i \in Stopped})
<1>1. Matching \subseteq 1..Len(sink) /\ Len(sink) \in Nat
  BY DEF Matching, TypeOK
<1>2. IsFiniteSet(1..Len(sink))
  BY <1>1, FS_Interval
<1>3. IsFiniteSet(Matching) /\ Stopped \subseteq Matching /\ IsFiniteSet(Stopped)
  BY <1>1, <1>2, FS_Subset DEF Stopped
<1>4. ASSUME NEW i \in Matching PROVE Said(i) \in Response /\ Size(i) \in Nat
  <2>1. sink[i] \in Event /\ sink[i].response # Nothing
    BY <1>1 DEF TypeOK, Matching, Reported
  <2>2. Said(i) \in Response
    BY <2>1 DEF Event, Said
  <2> QED
    BY <2>2, CaptureAssumption DEF Size
<1>5. IsFiniteSet({Said(i) : i \in Stopped})
  <2> DEFINE f == [i \in Stopped |-> Said(i)]
  <2>1. {f[i] : i \in Stopped} = {Said(i) : i \in Stopped}
    OBVIOUS
  <2>2. f = [i \in Stopped |-> f[i]]
    OBVIOUS
  <2> HIDE DEF f
  <2> QED
    BY <1>3, <2>1, <2>2, ImageIsFinite
<1>6. IsFiniteSet({Size(i) : i \in Stopped})
  <2> DEFINE f == [i \in Stopped |-> Size(i)]
  <2>1. {f[i] : i \in Stopped} = {Size(i) : i \in Stopped}
    OBVIOUS
  <2>2. f = [i \in Stopped |-> f[i]]
    OBVIOUS
  <2> HIDE DEF f
  <2> QED
    BY <1>3, <2>1, <2>2, ImageIsFinite
<1> QED
  BY <1>1, <1>3, <1>4, <1>5, <1>6

LEMMA LatestEvent ==
    ASSUME TypeOK, Matching # {}
    PROVE  Max(Matching) \in Matching /\ \A i \in Matching : Max(Matching) >= i
BY MatchingEvents, MaxIsGreatest

(* A final event is a Stop, the last of them.                              *)
LEMMA FinalIsStop ==
    ASSUME TypeOK, Matching # {}, Latest.state \in FinalStates
    PROVE  /\ Stopped # {} /\ Max(Stopped) \in Stopped /\ \A i \in Stopped : Max(Stopped) >= i
           /\ sink[Max(Stopped)].state = "settled"
<1>1. Max(Matching) \in Stopped
  BY LatestEvent DEF Latest, FinalStates, Stopped, IsStop
<1>2. Stopped \subseteq Nat /\ IsFiniteSet(Stopped)
  BY MatchingEvents
<1>3. Max(Stopped) \in Stopped /\ \A i \in Stopped : Max(Stopped) >= i
  BY <1>1, <1>2, MaxIsGreatest
<1>4. Max(Stopped) = Max(Matching)
  <2>1. Max(Stopped) >= Max(Matching) /\ Max(Matching) >= Max(Stopped)
    BY <1>1, <1>3, LatestEvent, MatchingEvents
  <2>2. Max(Stopped) \in Nat /\ Max(Matching) \in Nat
    BY <1>1, <1>2, <1>3
  <2> HIDE DEF Max
  <2> QED
    BY <2>1, <2>2
<1> QED
  BY <1>1, <1>3, <1>4 DEF Latest, FinalStates

LEMMA LongestIsSaid ==
    ASSUME TypeOK, Stopped # {}
    PROVE  /\ Longest \in Nat /\ \A i \in Stopped : Longest >= Size(i)
           /\ \E i \in Stopped : Longest = Size(i)
<1> DEFINE S == {Size(i) : i \in Stopped}
<1>1. S \subseteq Nat /\ S # {}
  BY MatchingEvents
<1>2. IsFiniteSet(S)
  BY MatchingEvents
<1> HIDE DEF S
<1>3. Max(S) \in S /\ \A n \in S : Max(S) >= n
  BY <1>1, <1>2, MaxIsGreatest
<1> QED
  BY <1>1, <1>3 DEF S, Longest

LEMMA SomeSubstantial ==
    ASSUME TypeOK, Stopped # {}
    PROVE  /\ Max(Substantial) \in Substantial
           /\ \A i \in Substantial : Max(Substantial) >= i
<1>1. PICK i \in Stopped : Longest = Size(i)
  BY LongestIsSaid
<1>2. i \in Substantial
  BY <1>1, LongestIsSaid DEF Substantial, AcceptPercent
<1>3. Substantial \subseteq Stopped
  BY DEF Substantial
<1>4. Substantial \subseteq Nat /\ IsFiniteSet(Substantial)
  BY <1>3, MatchingEvents, FS_Subset
<1> QED
  BY <1>2, <1>4, MaxIsGreatest

LEMMA ReportIsSaid ==
    ASSUME TypeOK, Resolves(FinalStates)
    PROVE  Report \in Response
<1>1. Matching # {} /\ Latest.state \in FinalStates
  BY DEF Resolves
<1>2. Max(Stopped) \in Stopped /\ Max(Substantial) \in Stopped
  BY <1>1, FinalIsStop, SomeSubstantial DEF Substantial
<1> QED
  BY <1>2, MatchingEvents DEF Report, LastReport

LEMMA PollTypes ==
    ASSUME TypeOK, Poll
    PROVE  TypeOK'
<1>1. CASE PollFails \/ TimesOut
  BY <1>1, RaiseTypes DEF PollFails, TimesOut
<1>2. CASE PollReturns
  <2>1. Places'
    BY <1>2, StillPlaced DEF PollReturns, Ends
  <2> QED
    BY <1>2, <2>1, ReportIsSaid, EndTypes DEF PollReturns
<1>3. CASE PollReturnsFailure
  <2>1. Places'
    BY <1>3, StillPlaced DEF PollReturnsFailure, Ends
  <2>2. Latest.response \in Response
    BY <1>3, LatestEvent, MatchingEvents DEF PollReturnsFailure, Resolves, Latest, Said
  <2> QED
    BY <1>3, <2>1, <2>2, EndTypes DEF PollReturnsFailure
<1>4. CASE PollFindsAmbiguity
  <2>1. Places'
    <3>1. Stopped \in SUBSET (1..Len(sink')) /\ review' = [i \in Stopped |-> Said(i)]
      BY <1>4, MatchingEvents DEF PollFindsAmbiguity, Ends
    <3>2. review' \in [Stopped -> Response]
      BY <3>1, MatchingEvents
    <3> QED
      BY <3>1, <3>2 DEF Places
  <2> QED
    BY <1>4, <2>1, EndTypes DEF PollFindsAmbiguity
<1>5. CASE PollExtends
  <2>1. Max(Matching) \in 0..Len(sink)
    BY <1>5, LatestEvent, MatchingEvents DEF PollExtends, ExtendsDeadline, Pending, Resolves
  <2>2. PendingWait \in 0..(ResultWait + PendingWait)
    BY CaptureAssumption
  <2> QED
    BY <1>5, <2>1, <2>2 DEF PollExtends, TypeOK, agent, ended
<1> QED
  BY <1>1, <1>2, <1>3, <1>4, <1>5 DEF Poll

LEMMA TickTypes == TypeOK /\ Tick => TypeOK'
BY CaptureAssumption DEF TypeOK, Tick, agent, ended

LEMMA InitTypes == Init => TypeOK
<1> SUFFICES ASSUME Init PROVE TypeOK
  OBVIOUS
<1>1. /\ sink \in Seq(Event) /\ Len(sink) = 0 /\ hook \in Seq(Event) /\ Len(hook) <= 1
      /\ review = <<>>
  <2>1. <<>> \in Seq(Event) /\ Len(<<>>) = 0
    OBVIOUS
  <2> QED
    BY <2>1 DEF Init
<1>2. 0 \in 0..(ResultWait + PendingWait) /\ 0 \in 0..Len(sink)
  BY <1>1, CaptureAssumption
<1>3. Places
  <2>1. review \in [{} -> Response]
    BY <1>1
  <2> QED
    BY <2>1 DEF Places
<1> QED
  BY <1>1, <1>2, <1>3 DEF Init, TypeOK, Places

LEMMA StepTypes == TypeOK /\ [Next]_vars => TypeOK'
<1> SUFFICES ASSUME TypeOK, [Next]_vars PROVE TypeOK'
  OBVIOUS
<1>1. CASE UNCHANGED vars
  BY <1>1 DEF vars, agent, ended, TypeOK
<1> QED
  BY <1>1, AgentTypes, PromptTypes, PollTypes, TickTypes DEF Next

(* Every variable keeps its type.                                          *)
THEOREM TypeCorrect == Spec => []TypeOK
BY InitTypes, StepTypes, PTL DEF Spec

-----------------------------------------------------------------------------
(* The inductive invariant: nothing is found before the call is over, and  *)
(* nothing changes afterwards.                                             *)
IInv == TypeOK /\ (phase # "over" => outcome = "none") /\ ReportIsKept /\ NoInterimResult

LEMMA OverIsOver == phase = "over" /\ [Next]_vars => UNCHANGED vars
<1> SUFFICES ASSUME phase = "over", Next PROVE FALSE
  OBVIOUS
<1>1. ~Agent
  BY DEF Agent, TakesPrompt, GoesOn, Blocks, HookWrites, HookFails, Stops, OtherWrites
<1>2. ~Prompts
  BY DEF Prompts, PromptReturns, PromptFails, PromptStalls, StalledSettled, StalledWorks, StalledIdle,
         WaitSettles, SeesActivity, StaysStalled
<1>3. ~Poll /\ ~Tick
  BY DEF Poll, PollFails, PollReturns, PollReturnsFailure, PollFindsAmbiguity, PollExtends,
         ExtendsDeadline, Pending, TimesOut, Tick, Resolves
<1> QED
  BY <1>1, <1>2, <1>3 DEF Next

LEMMA ToldAreStops == Told = Stopped
BY DEF Told, Stopped, Matching, Reported

LEMMA ReturnKeepsReport ==
    ASSUME IInv, PollReturns
    PROVE  ReportIsKept' /\ NoInterimResult'
<1>1. /\ TypeOK /\ Matching # {} /\ Latest.state \in FinalStates /\ Clear
      /\ outcome' = "settled" /\ result' = Report /\ sink' = sink
  BY DEF IInv, PollReturns, Resolves, Ends
<1>2. Told' = Stopped
  BY <1>1, ToldAreStops DEF Told
<1>3. /\ Max(Stopped) \in Stopped /\ \A i \in Stopped : Max(Stopped) >= i
      /\ sink[Max(Stopped)].state = "settled"
  BY <1>1, FinalIsStop
<1>4. /\ Longest \in Nat /\ \A i \in Stopped : Longest >= Size(i) /\ Size(i) \in Nat /\ i \in Nat
      /\ \E i \in Stopped : Longest = Size(i)
  BY <1>1, <1>3, LongestIsSaid, MatchingEvents
<1>5. \A i, j \in Stopped : Short(Said(i), Said(j)) <=> 100 * Size(i) < AcceptPercent * Size(j)
  BY DEF Short, Size
<1>6. PICK i \in Stopped :
        /\ Report = Said(i)
        /\ \A j \in Stopped : ~Short(Said(i), Said(j))
        /\ \A j \in Stopped : j > i => \E k \in Stopped : Short(Said(j), Said(k))
  <2>1. ASSUME NEW i \in Substantial PROVE \A j \in Stopped : ~Short(Said(i), Said(j))
    <3>1. i \in Stopped /\ 100 * Size(i) >= 35 * Longest
      BY DEF Substantial, AcceptPercent
    <3> SUFFICES ASSUME NEW j \in Stopped PROVE ~(100 * Size(i) < 35 * Size(j))
      BY <1>5, <3>1 DEF AcceptPercent
    <3>2. Longest \in Nat /\ Size(i) \in Nat /\ Size(j) \in Nat /\ Longest >= Size(j)
      BY <1>4, <3>1
    <3> QED
      BY <3>1, <3>2
  <2>2. CASE OneResponse
    <3> DEFINE S == {Said(j) : j \in Stopped}
    <3>1. PICK r : S = {r}
      <4>1. Cardinality(S) = 1 /\ IsFiniteSet(S)
        BY <1>1, <2>2, MatchingEvents DEF OneResponse
      <4> HIDE DEF S
      <4> QED
        BY <4>1, FS_Singleton
    <3>2. \A j \in Stopped : Said(j) = r
      BY <3>1
    <3>3. \A j \in Stopped : Size(j) = length[r]
      BY <3>2 DEF Size
    <3>4. \A j \in Stopped : ~Short(Said(Max(Stopped)), Said(j))
      <4> SUFFICES ASSUME NEW j \in Stopped
                   PROVE  ~(100 * Size(Max(Stopped)) < 35 * Size(j))
        BY <1>3, <1>5 DEF AcceptPercent
      <4>1. Size(Max(Stopped)) = Size(j) /\ Size(j) \in Nat
        BY <1>3, <1>4, <3>3
      <4> QED
        BY <4>1
    <3>5. \A j \in Stopped : ~(j > Max(Stopped))
      BY <1>3, <1>4
    <3>6. Report = Said(Max(Stopped))
      BY <2>2 DEF Report, LatestStop
    <3> QED
      BY <1>3, <3>4, <3>5, <3>6
  <2>3. CASE Max(Stopped) \in Substantial
    <3>1. Report = Said(Max(Stopped))
      BY <2>3 DEF Report, LatestStop
    <3>2. \A j \in Stopped : ~(j > Max(Stopped))
      BY <1>3, <1>4
    <3> QED
      BY <1>3, <2>1, <2>3, <3>1, <3>2
  <2>4. CASE ~LatestStop
    <3> DEFINE i == Max(Substantial)
    <3>1. i \in Substantial /\ \A j \in Substantial : i >= j
      BY <1>1, <1>3, SomeSubstantial
    <3>2. i \in Stopped /\ Report = Said(i)
      BY <2>4, <3>1 DEF Substantial, Report, LastReport
    <3>3. ASSUME NEW j \in Stopped, j > i
          PROVE  \E k \in Stopped : Short(Said(j), Said(k))
      <4>1. j \notin Substantial
        BY <1>4, <3>1, <3>2, <3>3
      <4>2. ~(100 * Size(j) >= 35 * Longest)
        BY <4>1 DEF Substantial, AcceptPercent
      <4>3. PICK k \in Stopped : Longest = Size(k)
        BY <1>4
      <4>4. 100 * Size(j) < 35 * Size(k)
        BY <1>4, <4>2, <4>3
      <4> QED
        BY <1>5, <4>3, <4>4 DEF AcceptPercent
    <3> QED
      BY <2>1, <3>1, <3>2, <3>3
  <2> QED
    BY <2>2, <2>3, <2>4 DEF LatestStop
<1>7. ReportIsKept'
  <2>1. /\ result' = sink'[i].response
        /\ \A j \in Stopped : ~Short(result', sink'[j].response)
        /\ \A j \in Stopped : j > i => \E k \in Stopped : Short(sink'[j].response, sink'[k].response)
    BY <1>1, <1>6 DEF Said
  <2> QED
    BY <1>1, <1>2, <2>1 DEF ReportIsKept, Short
<1>8. NoInterimResult'
  BY <1>1, <1>2, <1>3 DEF NoInterimResult
<1> QED
  BY <1>7, <1>8

LEMMA ReviewKeepsReport ==
    ASSUME IInv, PollFindsAmbiguity
    PROVE  ReportIsKept' /\ NoInterimResult'
<1>1. /\ TypeOK /\ Matching # {} /\ Latest.state \in FinalStates /\ ~Clear
      /\ outcome' = "ambiguous" /\ review' = [i \in Stopped |-> Said(i)] /\ sink' = sink
  BY DEF IInv, PollFindsAmbiguity, Resolves, Ends
<1>2. Told' = Stopped
  BY <1>1, ToldAreStops DEF Told
<1>3. /\ Max(Stopped) \in Stopped /\ sink[Max(Stopped)].state = "settled"
  BY <1>1, FinalIsStop
<1> DEFINE S == {Said(i) : i \in Stopped}
<1>4. Range(review') = S
  BY <1>1 DEF Range
<1>5. Cardinality(S) > 1
  <2>1. S # {} /\ IsFiniteSet(S) /\ Cardinality(S) # 1
    <3>1. ~OneResponse
      BY <1>1 DEF Clear, LatestStop
    <3> QED
      BY <1>1, <1>3, <3>1, MatchingEvents DEF OneResponse
  <2> HIDE DEF S
  <2>2. Cardinality(S) \in Nat /\ Cardinality(S) # 0
    BY <2>1, FS_CardinalityType, FS_EmptySet
  <2> QED
    BY <2>1, <2>2
<1>6. {sink'[i].response : i \in Stopped} = S
  BY <1>1 DEF Said
<1>7. ReportIsKept'
  <2> HIDE DEF S
  <2> QED
    BY <1>1, <1>2, <1>4, <1>5, <1>6 DEF ReportIsKept
<1>8. NoInterimResult'
  BY <1>1, <1>2, <1>3 DEF NoInterimResult
<1> QED
  BY <1>7, <1>8

(* What else a step may end in.                                            *)
LEMMA OtherOutcomes ==
    ASSUME IInv, phase # "over", Next, ~PollReturns, ~PollFindsAmbiguity
    PROVE  /\ outcome' \in {"none", "blocked", "failed", "error"}
           /\ phase' # "over" => outcome' = "none"
<1>1. outcome = "none"
  BY DEF IInv
<1>2. CASE Agent
  <2>1. Lives
    BY <1>2 DEF Agent, TakesPrompt, GoesOn, Blocks, HookWrites, HookFails, Stops, OtherWrites
  <2> QED
    BY <1>1, <2>1 DEF Lives, ended
<1>3. CASE Prompts
  BY <1>1, <1>3 DEF Prompts, PromptReturns, PromptFails, PromptStalls, StalledSettled, StalledWorks,
         StalledIdle, WaitSettles, SeesActivity, StaysStalled, SettlesWith, Raises, Ends, ended
<1>4. CASE Poll
  BY <1>1, <1>4 DEF Poll, PollFails, PollReturnsFailure, PollExtends, TimesOut, Raises, Ends, ended
<1>5. CASE Tick
  BY <1>1, <1>5 DEF Tick, ended
<1> QED
  BY <1>2, <1>3, <1>4, <1>5 DEF Next

LEMMA StepIInv == IInv /\ [Next]_vars => IInv'
<1> SUFFICES ASSUME IInv, [Next]_vars PROVE IInv'
  OBVIOUS
<1>1. TypeOK'
  BY StepTypes DEF IInv
<1>2. CASE UNCHANGED vars
  BY <1>1, <1>2 DEF IInv, ReportIsKept, NoInterimResult, Told, vars, agent, ended
<1>3. CASE Next /\ phase # "over" /\ PollReturns
  BY <1>1, <1>3, ReturnKeepsReport DEF IInv, PollReturns, Ends
<1>4. CASE Next /\ phase # "over" /\ PollFindsAmbiguity
  BY <1>1, <1>4, ReviewKeepsReport DEF IInv, PollFindsAmbiguity, Ends
<1>5. CASE Next /\ phase # "over" /\ ~PollReturns /\ ~PollFindsAmbiguity
  BY <1>1, <1>5, OtherOutcomes DEF IInv, ReportIsKept, NoInterimResult
<1> QED
  BY <1>2, <1>3, <1>4, <1>5, OverIsOver

LEMMA InitIInv == Init => IInv
BY InitTypes DEF Init, IInv, ReportIsKept, NoInterimResult

(* Whatever the agent says between its background tasks, and whatever the  *)
(* lengths of its words and the thresholds: the response that is returned  *)
(* is the last that is not short beside the longest one, and an ambiguity  *)
(* has all that was said.                                                  *)
THEOREM ReportAlwaysKept == Spec => []ReportIsKept
<1>1. IInv => ReportIsKept
  BY DEF IInv
<1> QED
  BY <1>1, InitIInv, StepIInv, PTL DEF Spec

(* Nothing is returned while the last that the agent reported is that      *)
(* background tasks are pending.                                           *)
THEOREM NeverAnInterimResult == Spec => []NoInterimResult
<1>1. IInv => NoInterimResult
  BY DEF IInv
<1> QED
  BY <1>1, InitIInv, StepIInv, PTL DEF Spec
=============================================================================
