---------------------- MODULE UpipeHelperOutputProofs ----------------------
(* Proofs about UpipeHelperOutput, for any outputs, flow definitions,      *)
(* requests, handlers and depth of calls.                                  *)
EXTENDS UpipeHelperOutput, FiniteSetTheorems, TLAPS

StateOK ==
    /\ output \in Outputs \cup {None} /\ flow_def \in FlowDefs \cup {None}
    /\ output_state \in States

RequestsOK ==
    /\ request_list \subseteq Requests /\ registered \subseteq Requests
    /\ asked \in [Outputs -> SUBSET Requests]

OthersOK ==
    /\ offered \in [Outputs -> FlowDefs \cup {None}]
    /\ accepted \in [Outputs -> BOOLEAN]

StackOK == stack \in Seq(Frames)

(* All but the counts of references.                                       *)
Sound == StateOK /\ RequestsOK /\ OthersOK /\ StackOK

IInv == Sound /\ Described /\ RequestsFollow

-----------------------------------------------------------------------------
(* What becomes of the stack: frames stay where they are, and only the     *)
(* last changes.                                                           *)
LEMMA FrameType ==
    ASSUME NEW at \in {"need", "loop", "error", "judge", "set", "asked", "stored"}
    PROVE  Frame(at) \in Frames
BY DEF Frame, Frames

LEMMA HandledType ==
    ASSUME StackOK
    PROVE  /\ Handled \in Seq(Frames)
           /\ Len(Handled) = Len(stack)
           /\ \A i \in DOMAIN stack : Handled[i].at = stack[i].at
<1>1. CASE stack = <<>>
  BY <1>1 DEF Handled, StackOK
<1>2. CASE stack # <<>>
  <2>1. Len(stack) \in 1..Len(stack) /\ DOMAIN stack = 1..Len(stack)
    BY <1>2 DEF StackOK
  <2>2. stack[Len(stack)] \in Frames
    BY <2>1 DEF StackOK
  <2>3. [stack[Len(stack)] EXCEPT !.event = None] \in Frames
    BY <2>2 DEF Frames
  <2> QED
    BY <1>2, <2>1, <2>2, <2>3 DEF Handled, StackOK, Frames
<1> QED
  BY <1>1, <1>2

LEMMA EnterType ==
    ASSUME StackOK, NEW frame \in Frames, Enter(frame)
    PROVE  /\ stack' \in Seq(Frames)
           /\ Setting' <=> Setting \/ frame.at = "set"
<1>1. /\ Handled \in Seq(Frames)
      /\ Len(Handled) = Len(stack)
      /\ \A i \in DOMAIN stack : Handled[i].at = stack[i].at
  BY HandledType
<1>2. PICK h \in Seq(Frames) : h = Handled
  BY <1>1
<1>3. stack' = Append(h, frame)
  BY <1>2 DEF Enter
<1>4. /\ stack' \in Seq(Frames) /\ Len(stack') = Len(h) + 1
      /\ \A i \in 1..Len(h) : stack'[i] = h[i]
      /\ stack'[Len(h) + 1] = frame
  BY <1>3
<1>5. DOMAIN stack = 1..Len(h) /\ DOMAIN stack' = 1..(Len(h) + 1) /\ Len(h) \in Nat
  BY <1>1, <1>2, <1>4 DEF StackOK
<1>6. 1..(Len(h) + 1) = (1..Len(h)) \cup {Len(h) + 1}
  BY <1>5
<1> QED
  BY <1>1, <1>2, <1>4, <1>5, <1>6 DEF Setting

LEMMA HandleType ==
    ASSUME StackOK, stack' = Handled
    PROVE  stack' \in Seq(Frames) /\ (Setting' <=> Setting)
<1>1. /\ stack' \in Seq(Frames)
      /\ Len(stack') = Len(stack)
      /\ \A i \in DOMAIN stack : stack'[i].at = stack[i].at
  BY HandledType
<1>2. DOMAIN stack' = DOMAIN stack
  BY <1>1 DEF StackOK
<1> QED
  BY <1>1, <1>2 DEF Setting

LEMMA TopType ==
    ASSUME StackOK, stack # <<>>
    PROVE  /\ Len(stack) \in 1..Len(stack) /\ DOMAIN stack = 1..Len(stack)
           /\ Len(stack) \in Nat
           /\ Top \in Frames
<1>1. Len(stack) \in 1..Len(stack) /\ DOMAIN stack = 1..Len(stack) /\ Len(stack) \in Nat
  BY DEF StackOK
<1> QED
  BY <1>1 DEF StackOK, Top

LEMMA GoOnType ==
    ASSUME StackOK, stack # <<>>, NEW frame \in Frames, GoOn(frame),
           frame.at = "set" <=> Top.at = "set"
    PROVE  stack' \in Seq(Frames) /\ (Setting' <=> Setting)
<1>1. /\ Len(stack) \in 1..Len(stack) /\ DOMAIN stack = 1..Len(stack)
      /\ Len(stack) \in Nat
  BY TopType
<1>2. stack' = [stack EXCEPT ![Len(stack)] = frame]
  BY DEF GoOn
<1>3. stack' \in Seq(Frames) /\ DOMAIN stack' = DOMAIN stack
  BY <1>1, <1>2 DEF StackOK
<1>4. \A i \in DOMAIN stack : stack'[i].at = "set" <=> stack[i].at = "set"
  BY <1>1, <1>2 DEF Top
<1> QED
  BY <1>3, <1>4 DEF Setting

LEMMA LeaveType ==
    ASSUME StackOK, stack # <<>>, Leave
    PROVE  /\ stack' \in Seq(Frames)
           /\ Setting' => Setting
           /\ Setting => Setting' \/ Top.at = "set"
<1>1. /\ Len(stack) \in 1..Len(stack) /\ DOMAIN stack = 1..Len(stack)
      /\ Len(stack) \in Nat
  BY TopType
<1>2. stack' = SubSeq(stack, 1, Len(stack) - 1)
  BY DEF Leave
<1>3. /\ stack' \in Seq(Frames) /\ DOMAIN stack' = 1..(Len(stack) - 1)
      /\ \A i \in 1..(Len(stack) - 1) : stack'[i] = stack[i]
  BY <1>1, <1>2 DEF StackOK
<1>4. 1..Len(stack) = (1..(Len(stack) - 1)) \cup {Len(stack)}
  BY <1>1
<1> QED
  BY <1>1, <1>3, <1>4 DEF Setting, Top

-----------------------------------------------------------------------------
(* Steps that do not change the state, the requests and what was offered   *)
(* keep the invariant, if they finish no call that sets the output.        *)
LEMMA StackStep ==
    ASSUME IInv, UNCHANGED <<state, requests, others,
                             life>>, stack' \in Seq(Frames),
           Setting => Setting'
    PROVE  IInv'
BY DEF IInv, Sound, StateOK, RequestsOK, OthersOK, StackOK, Described, RequestsFollow,
       Unasked, state, requests, others

LEMMA HandleInv ==
    ASSUME IInv, Handle
    PROVE  IInv'
BY HandleType, StackStep DEF IInv, Sound, Handle

LEMMA OutputInv ==
    ASSUME IInv, Output
    PROVE  IInv'
<1> USE DEF IInv, Sound
<1>1. CASE flow_def = None
  BY <1>1, HandleType, StackStep DEF Output
<1>2. CASE flow_def # None /\ output = None
  <2>1. [Frame("need") EXCEPT !.event = "need_output"] \in Frames
    BY FrameType DEF Frames, Event
  <2> QED
    BY <1>2, <2>1, EnterType, StackStep DEF Output
<1>3. CASE flow_def # None /\ output # None
  BY <1>3, FrameType, EnterType, StackStep DEF Output
<1> QED
  BY <1>1, <1>2, <1>3

LEMMA NeededInv ==
    ASSUME IInv, Needed
    PROVE  IInv'
<1>1. stack # <<>> /\ Top.at = "need" /\ StackOK
  BY DEF Needed, Running, IInv, Sound
<1>2. CASE output = None
  BY <1>1, <1>2, LeaveType, StackStep DEF Needed
<1>3. CASE output # None
  <2>1. Frame("loop") \in Frames /\ Frame("loop").at = "loop"
    BY FrameType DEF Frame
  <2>2. GoOn(Frame("loop"))
    BY <1>3 DEF Needed
  <2> QED
    BY <1>1, <2>1, <2>2, GoOnType, StackStep DEF Needed
<1> QED
  BY <1>2, <1>3

LEMMA SendInv ==
    ASSUME IInv, Send
    PROVE  IInv'
<1>1. stack # <<>> /\ Top.at = "loop" /\ StackOK
  BY DEF Send, Running, IInv, Sound
<1> QED
  BY <1>1, LeaveType, StackStep DEF Send

LEMMA RequestsStay ==
    ASSUME RequestsFollow, UNCHANGED <<output, requests>>, Setting => Setting'
    PROVE  RequestsFollow'
BY DEF RequestsFollow, Unasked, requests

LEMMA FailInv ==
    ASSUME IInv, NEW assertion, Fail(assertion), assertion # "alive"
    PROVE  IInv'
BY DEF IInv, Sound, StateOK, RequestsOK, OthersOK, StackOK, Described, RequestsFollow,
       Setting, Unasked, Fail, state, requests, others

LEMMA AcceptInv ==
    ASSUME IInv, Accept
    PROVE  IInv'
<1> USE DEF IInv, Sound
<1>1. /\ output # None /\ UNCHANGED <<output, flow_def, requests, stack>>
      /\ output_state' = "VALID"
      /\ offered' = [offered EXCEPT ![output] = flow_def]
      /\ accepted' = [accepted EXCEPT ![output] = TRUE]
  BY DEF Accept, Offered
<1>2. output \in Outputs
  BY <1>1 DEF StateOK
<1>3. StateOK' /\ RequestsOK' /\ OthersOK' /\ StackOK'
  BY <1>1, <1>2 DEF StateOK, RequestsOK, OthersOK, StackOK, States, requests
<1>4. offered'[output] = flow_def /\ accepted'[output] = TRUE
  BY <1>1, <1>2 DEF OthersOK
<1>5. Described'
  BY <1>1, <1>4 DEF Described
<1>6. RequestsFollow'
  BY <1>1, RequestsStay DEF Setting
<1> QED
  BY <1>3, <1>5, <1>6

LEMMA RejectInv ==
    ASSUME IInv, Reject
    PROVE  IInv'
<1> USE DEF IInv, Sound
<1>1. /\ stack # <<>> /\ Top.at = "loop"
      /\ output # None /\ output_state = "NONE"
      /\ UNCHANGED <<state, requests>>
      /\ offered' = [offered EXCEPT ![output] = flow_def]
      /\ accepted' = [accepted EXCEPT ![output] = FALSE]
  BY DEF Reject, Offered, Running
<1>2. output \in Outputs
  BY <1>1 DEF StateOK
<1>3. StateOK' /\ RequestsOK' /\ OthersOK'
  BY <1>1, <1>2 DEF StateOK, RequestsOK, OthersOK, state, requests
<1>4. stack' \in Seq(Frames) /\ (Setting' <=> Setting)
  <2> DEFINE frame == [Top EXCEPT !.at = "error", !.event = "error"]
  <2>1. frame \in Frames /\ frame.at = "error"
    BY <1>1, TopType DEF Frames, Event
  <2>2. GoOn(frame)
    BY DEF Reject
  <2> QED
    BY <1>1, <2>1, <2>2, GoOnType
<1>5. Described'
  BY <1>1 DEF Described, state
<1>6. RequestsFollow'
  BY <1>1, <1>4, RequestsStay DEF state
<1> QED
  BY <1>3, <1>4, <1>5, <1>6 DEF StackOK

LEMMA NeedOtherInv ==
    ASSUME IInv, NeedOther
    PROVE  IInv'
<1> DEFINE frame == [Top EXCEPT !.at = "judge", !.event = "need_output", !.held = output]
<1>1. stack # <<>> /\ Top.at = "error" /\ StackOK
  BY DEF NeedOther, Running, IInv, Sound
<1>2. frame \in Frames /\ frame.at = "judge"
  BY <1>1, TopType DEF Frames, Event, IInv, Sound, StateOK
<1>3. GoOn(frame)
  BY DEF NeedOther
<1>4. stack' \in Seq(Frames) /\ (Setting' <=> Setting)
  BY <1>1, <1>2, <1>3, GoOnType
<1> QED
  BY <1>4, StackStep DEF NeedOther

LEMMA JudgeInv ==
    ASSUME IInv, Judge
    PROVE  IInv'
<1> USE DEF IInv, Sound
<1>1. /\ stack # <<>> /\ Top.at = "judge"
      /\ UNCHANGED <<output, flow_def, requests, others, life>>
      /\ output_state' \in {"INVALID", output_state}
  BY DEF Judge, Running
<1>2. stack' \in Seq(Frames) /\ (Setting' <=> Setting)
  <2>1. PICK frame \in Frames : frame.at = "loop" /\ GoOn(frame)
    <3>1. Top \in Frames
      BY <1>1, TopType
    <3>2. /\ [Frame("loop") EXCEPT !.retried = Top.retried] \in Frames
          /\ [Frame("loop") EXCEPT !.retried = TRUE] \in Frames
      BY <3>1, FrameType DEF Frames
    <3>3. /\ [Frame("loop") EXCEPT !.retried = Top.retried].at = "loop"
          /\ [Frame("loop") EXCEPT !.retried = TRUE].at = "loop"
      BY DEF Frame
    <3> QED
      BY <3>2, <3>3 DEF Judge
  <2> QED
    BY <1>1, <2>1, GoOnType
<1>3. StateOK' /\ RequestsOK' /\ OthersOK'
  BY <1>1 DEF StateOK, RequestsOK, OthersOK, States, requests, others
<1>4. Described'
  BY <1>1 DEF Described, others
<1>5. RequestsFollow'
  BY <1>1, <1>2, RequestsStay
<1> QED
  BY <1>2, <1>3, <1>4, <1>5 DEF StackOK

-----------------------------------------------------------------------------
(* Requests.                                                               *)
LEMMA AskFollows ==
    ASSUME IInv, NEW r \in Requests, Ask(r), output # None, output' = output,
           r \in request_list', request_list' \in {request_list, request_list \cup {r}},
           Setting => Setting'
    PROVE  RequestsOK' /\ RequestsFollow'
<1> USE DEF IInv, Sound
<1>1. /\ output \in Outputs
      /\ registered' = registered \cup {r}
      /\ asked' = [asked EXCEPT ![output] = @ \cup {r}]
  BY DEF StateOK, Ask
<1>2. RequestsOK'
  BY <1>1 DEF RequestsOK
<1>3. \A o \in Outputs : asked'[o] = IF o = output' THEN registered' ELSE {}
  BY <1>1 DEF RequestsOK, RequestsFollow
<1>4. registered' \subseteq request_list'
  BY <1>1 DEF RequestsFollow
<1>5. ~Setting' => Unasked' = {}
  BY <1>1 DEF RequestsFollow, Unasked
<1> QED
  BY <1>2, <1>3, <1>4, <1>5 DEF RequestsFollow

LEMMA RegisterInv ==
    ASSUME IInv, NEW r \in Requests, Register(r)
    PROVE  IInv'
<1> USE DEF IInv, Sound
<1>1. /\ UNCHANGED <<output, flow_def, output_state, offered, accepted, life>>
      /\ request_list' = request_list \cup {r}
  BY DEF Register, state, others
<1>2. stack' \in Seq(Frames) /\ (Setting' <=> Setting)
  <2> DEFINE frame == [Frame("asked") EXCEPT !.event = "provide"]
  <2>1. frame \in Frames /\ frame.at = "asked"
    BY FrameType DEF Frames, Frame, Event
  <2>2. Enter(frame)
    BY DEF Register
  <2> QED
    BY <2>1, <2>2, EnterType
<1>3. StateOK' /\ OthersOK' /\ Described'
  BY <1>1 DEF StateOK, OthersOK, Described
<1>4. CASE output = None
  <2>1. RequestsOK' /\ RequestsFollow'
    BY <1>1, <1>4 DEF Register, RequestsOK, RequestsFollow
  <2> QED
    BY <1>2, <1>3, <2>1 DEF StackOK
<1>5. CASE output # None
  <2>1. RequestsOK' /\ RequestsFollow'
    BY <1>1, <1>2, <1>5, AskFollows DEF Register
  <2> QED
    BY <1>2, <1>3, <2>1 DEF StackOK
<1> QED
  BY <1>4, <1>5

LEMMA UnregisterInv ==
    ASSUME IInv, NEW r \in Requests, Unregister(r)
    PROVE  IInv'
<1> USE DEF IInv, Sound
<1>1. /\ UNCHANGED <<output, flow_def, output_state, offered, accepted, life>>
      /\ request_list' = request_list \ {r}
      /\ stack' = Handled
  BY DEF Unregister, state, others
<1>2. stack' \in Seq(Frames) /\ (Setting' <=> Setting)
  BY <1>1, HandleType
<1>3. StateOK' /\ OthersOK' /\ Described'
  BY <1>1 DEF StateOK, OthersOK, Described
<1>4. CASE output # None /\ r \in registered
  <2>1. /\ output \in Outputs
        /\ registered' = registered \ {r}
        /\ asked' = [asked EXCEPT ![output] = @ \ {r}]
    BY <1>4 DEF StateOK, Unregister
  <2>2. RequestsOK'
    BY <1>1, <2>1 DEF RequestsOK
  <2>3. \A o \in Outputs : asked'[o] = IF o = output' THEN registered' ELSE {}
    BY <1>1, <2>1 DEF RequestsOK, RequestsFollow
  <2>4. registered' \subseteq request_list' /\ (~Setting' => Unasked' = {})
    BY <1>1, <1>2, <1>4, <2>1 DEF RequestsFollow, Unasked
  <2> QED
    BY <1>1, <1>2, <1>3, <1>4, <2>2, <2>3, <2>4 DEF RequestsFollow, StackOK
<1>5. CASE ~(output # None /\ r \in registered)
  <2>1. registered' = registered /\ asked' = asked
    BY <1>5 DEF Unregister
  <2>2. r \notin registered
    BY <1>5 DEF RequestsFollow
  <2>3. RequestsOK'
    BY <1>1, <2>1 DEF RequestsOK
  <2>4. RequestsFollow'
    BY <1>1, <1>2, <2>1, <2>2 DEF RequestsFollow, Unasked
  <2> QED
    BY <1>2, <1>3, <2>3, <2>4 DEF StackOK
<1> QED
  BY <1>4, <1>5

(* Without the requests of its former output, the pipe has none that are   *)
(* registered, and may have any output.                                    *)
LEMMA AllUnregistered ==
    ASSUME IInv, CanUnregister, UnregisterAll
    PROVE  /\ registered' = {}
           /\ asked' \in [Outputs -> SUBSET Requests]
           /\ \A o \in Outputs : asked'[o] = {}
<1> USE DEF IInv, Sound
<1>1. CASE output = None
  BY <1>1 DEF UnregisterAll, RequestsFollow, RequestsOK
<1>2. CASE output # None
  <2>1. /\ output \in Outputs
        /\ registered' = registered \ request_list
        /\ asked' = [asked EXCEPT ![output] = @ \ request_list]
    BY <1>2 DEF UnregisterAll, StateOK
  <2>2. registered \subseteq request_list
    BY DEF RequestsFollow
  <2>3. \A o \in Outputs : asked[o] = IF o = output THEN registered ELSE {}
    BY DEF RequestsFollow
  <2> QED
    BY <2>1, <2>2, <2>3 DEF RequestsOK
<1> QED
  BY <1>1, <1>2

LEMMA SetOutputInv ==
    ASSUME IInv, NEW o \in Outputs \cup {None}, SetOutput(o)
    PROVE  IInv'
<1> USE DEF IInv, Sound
<1>1. /\ UNCHANGED <<flow_def, request_list, offered, accepted, life>>
      /\ output' = o /\ output_state' = "NONE"
      /\ CanUnregister /\ UnregisterAll
  BY DEF SetOutput, others
<1>2. /\ registered' = {}
      /\ asked' \in [Outputs -> SUBSET Requests]
      /\ \A p \in Outputs : asked'[p] = {}
  BY <1>1, AllUnregistered
<1>3. StateOK' /\ RequestsOK' /\ OthersOK' /\ Described'
  BY <1>1, <1>2 DEF StateOK, RequestsOK, OthersOK, States, Described
<1>4. stack' \in Seq(Frames) /\ (o # None => Setting')
  <2>1. CASE o = None
    BY <2>1, HandleType DEF SetOutput
  <2>2. CASE o # None
    <3>1. Frame("set") \in Frames /\ Frame("set").at = "set"
      BY FrameType DEF Frame
    <3>2. Enter(Frame("set"))
      BY <2>2 DEF SetOutput
    <3> QED
      BY <3>1, <3>2, EnterType
  <2> QED
    BY <2>1, <2>2
<1>5. RequestsFollow'
  BY <1>1, <1>2, <1>4 DEF RequestsFollow
<1> QED
  BY <1>3, <1>4, <1>5 DEF StackOK

LEMMA SetOutputFailsInv ==
    ASSUME IInv, SetOutputFails
    PROVE  IInv'
<1>1. "urequest->registered" # "alive"
  OBVIOUS
<1> QED
  BY <1>1, FailInv DEF SetOutputFails

LEMMA SetAskInv ==
    ASSUME IInv, NEW r \in Requests, SetAsk(r)
    PROVE  IInv'
<1> USE DEF IInv, Sound
<1>1. /\ stack # <<>> /\ Top.at = "set"
      /\ output # None /\ r \in request_list
      /\ UNCHANGED <<output, flow_def, output_state, request_list, offered,
                     accepted, life>>
      /\ Ask(r)
  BY DEF SetAsk, Running, Unasked, state, others
<1>2. stack' \in Seq(Frames) /\ (Setting' <=> Setting)
  <2> DEFINE frame == [Top EXCEPT !.event = "provide"]
  <2>1. frame \in Frames /\ frame.at = "set"
    BY <1>1, TopType DEF Frames, Event
  <2>2. GoOn(frame)
    BY DEF SetAsk
  <2> QED
    BY <1>1, <2>1, <2>2, GoOnType
<1>3. StateOK' /\ OthersOK' /\ Described'
  BY <1>1 DEF StateOK, OthersOK, Described
<1>4. RequestsOK' /\ RequestsFollow'
  BY <1>1, <1>2, AskFollows
<1> QED
  BY <1>2, <1>3, <1>4 DEF StackOK

LEMMA SetAskNoneInv ==
    ASSUME IInv, SetAskNone
    PROVE  IInv'
<1>1. "upipe != NULL" # "alive"
  OBVIOUS
<1> QED
  BY <1>1, FailInv DEF SetAskNone

LEMMA OfferToNoneInv ==
    ASSUME IInv, OfferToNone
    PROVE  IInv'
<1>1. "upipe != NULL" # "alive"
  OBVIOUS
<1> QED
  BY <1>1, FailInv DEF OfferToNone

(* A call that ends leaves no request behind, if it was the one that set   *)
(* the output.                                                             *)
LEMMA EndCallInv ==
    ASSUME IInv, EndCall
    PROVE  IInv'
<1> USE DEF IInv, Sound
<1>1. /\ stack # <<>> /\ (Top.at = "set" => Unasked = {})
      /\ UNCHANGED <<state, requests, others, life>>
      /\ Leave
  BY DEF EndCall, EndSet, Running
<1>2. /\ stack' \in Seq(Frames)
      /\ Setting' => Setting
      /\ Setting => Setting' \/ Top.at = "set"
  BY <1>1, LeaveType
<1>3. StateOK' /\ RequestsOK' /\ OthersOK' /\ Described'
  BY <1>1 DEF StateOK, RequestsOK, OthersOK, Described, state, requests, others
<1>4. RequestsFollow'
  BY <1>1, <1>2 DEF RequestsFollow, Unasked, state, requests
<1> QED
  BY <1>2, <1>3, <1>4 DEF StackOK

LEMMA StoreFlowDefInv ==
    ASSUME IInv, NEW f \in FlowDefs \cup {None}, StoreFlowDef(f)
    PROVE  IInv'
<1> USE DEF IInv, Sound
<1>1. /\ UNCHANGED <<output, requests, offered, accepted, life>>
      /\ flow_def' = f
      /\ output_state' = IF f # None /\ f = flow_def THEN output_state ELSE "NONE"
  BY DEF StoreFlowDef, others
<1>2. StateOK' /\ RequestsOK' /\ OthersOK'
  BY <1>1 DEF StateOK, RequestsOK, OthersOK, States, requests
<1>3. Described'
  BY <1>1 DEF Described
<1>4. stack' \in Seq(Frames) /\ (Setting' <=> Setting)
  <2>1. CASE f = None \/ f = flow_def
    BY <2>1, HandleType DEF StoreFlowDef
  <2>2. CASE ~(f = None \/ f = flow_def)
    <3> DEFINE frame == [Frame("stored") EXCEPT !.event = "new_flow_def"]
    <3>1. frame \in Frames /\ frame.at = "stored"
      BY FrameType DEF Frames, Frame, Event
    <3>2. Enter(frame)
      BY <2>2 DEF StoreFlowDef
    <3> QED
      BY <3>1, <3>2, EnterType
  <2> QED
    BY <2>1, <2>2
<1>5. RequestsFollow'
  BY <1>1, <1>4, RequestsStay
<1> QED
  BY <1>2, <1>3, <1>4, <1>5 DEF StackOK

LEMMA CleanInv ==
    ASSUME IInv, Clean
    PROVE  IInv'
<1> USE DEF IInv, Sound
<1>1. CASE CanUnregister
  <2>1. /\ UNCHANGED <<output_state, offered, accepted, stack>>
        /\ life' = "freed" /\ request_list' = {}
        /\ output' = None /\ flow_def' = None
        /\ UnregisterAll
    BY <1>1 DEF Clean, others
  <2>2. /\ registered' = {}
        /\ asked' \in [Outputs -> SUBSET Requests]
        /\ \A o \in Outputs : asked'[o] = {}
    BY <1>1, <2>1, AllUnregistered
  <2>3. StateOK' /\ RequestsOK' /\ OthersOK' /\ StackOK' /\ Described'
    BY <2>1, <2>2 DEF StateOK, RequestsOK, OthersOK, StackOK, Described
  <2>4. RequestsFollow'
    BY <2>1, <2>2 DEF RequestsFollow
  <2> QED
    BY <2>3, <2>4
<1>2. CASE ~CanUnregister
  <2>1. "urequest->registered" # "alive"
    OBVIOUS
  <2> QED
    BY <1>2, <2>1, FailInv DEF Clean
<1> QED
  BY <1>1, <1>2

-----------------------------------------------------------------------------
LEMMA InitInv == Init => IInv
<1>1. <<>> \in Seq(Frames)
  OBVIOUS
<1> QED
  BY <1>1 DEF Init, IInv, Sound, StateOK, RequestsOK, OthersOK, StackOK, States,
     Described, RequestsFollow, Unasked

LEMMA NextInv == IInv /\ [Next]_vars => IInv'
<1> SUFFICES ASSUME IInv, [Next]_vars
             PROVE  IInv'
  OBVIOUS
<1>1. CASE Step
  BY <1>1, HandleInv, NeededInv, SendInv, AcceptInv, RejectInv, OfferToNoneInv,
     NeedOtherInv, JudgeInv, EndCallInv, SetAskNoneInv, SetAskInv DEF Step
<1>2. CASE Call
  BY <1>2, OutputInv, SetOutputFailsInv, RegisterInv, UnregisterInv, StoreFlowDefInv,
     SetOutputInv DEF Call
<1>3. CASE Clean
  BY <1>3, CleanInv
<1>4. CASE UNCHANGED vars
  BY <1>4 DEF vars, state, requests, others, IInv, Sound, StateOK, RequestsOK, OthersOK,
     StackOK, Described, RequestsFollow, Setting, Unasked
<1> QED
  BY <1>1, <1>2, <1>3, <1>4 DEF Next

(* Urefs only go to an output that was offered the present flow definition *)
(* and accepted it, whatever is called from the handlers of probes.        *)
THEOREM OutputDescribed == Spec => []Described
<1>1. IInv => Described
  BY DEF IInv
<1> QED
  BY <1>1, InitInv, NextInv, PTL DEF Spec

(* The requests of the pipe, and no others, are registered at its output,  *)
(* and at no other pipe; they are all there once no call sets the output.  *)
THEOREM RequestsAtOutput == Spec => []RequestsFollow
<1>1. IInv => RequestsFollow
  BY DEF IInv
<1> QED
  BY <1>1, InitInv, NextInv, PTL DEF Spec

-----------------------------------------------------------------------------
(* The calls that hold a reference on o until they come back to it: the    *)
(* part of RefsCounted that depends on the stack.                          *)
Holding(o) == {i \in DOMAIN stack : stack[i].at = "judge" /\ stack[i].held = o}

Counted ==
    /\ refs \in [Outputs -> Int]
    /\ Len(stack) <= MaxDepth
    /\ RefsCounted

LEMMA HoldingFinite ==
    ASSUME StackOK, NEW o
    PROVE  IsFiniteSet(Holding(o)) /\ Cardinality(Holding(o)) \in Nat
<1>1. IsFiniteSet(1..Len(stack))
  BY FS_Interval DEF StackOK
<1>2. Holding(o) \in SUBSET (1..Len(stack))
  BY DEF Holding, StackOK
<1> QED
  BY <1>1, <1>2, FS_Subset, FS_CardinalityType

(* Steps that neither start nor finish such a call.                        *)
LEMMA HandledHolds ==
    ASSUME StackOK, stack' = Handled
    PROVE  Len(stack') = Len(stack) /\ \A o : Holding(o)' = Holding(o)
<1>1. Handled \in Seq(Frames) /\ Len(Handled) = Len(stack)
  BY HandledType
<1>2. \A i \in DOMAIN stack :
        Handled[i].at = stack[i].at /\ Handled[i].held = stack[i].held
  <2>1. CASE stack = <<>>
    BY <2>1 DEF Handled
  <2>2. CASE stack # <<>>
    <3>1. \A i \in DOMAIN stack : stack[i] \in Frames
      BY DEF StackOK
    <3> QED
      BY <2>2, <3>1, TopType DEF Handled, Frames
  <2> QED
    BY <2>1, <2>2
<1>3. DOMAIN stack' = DOMAIN stack
  BY <1>1 DEF StackOK
<1> QED
  BY <1>1, <1>2, <1>3 DEF Holding

LEMMA EnterHolds ==
    ASSUME StackOK, NEW frame \in Frames, frame.at # "judge", Enter(frame)
    PROVE  Len(stack') = Len(stack) + 1 /\ \A o : Holding(o)' = Holding(o)
<1>1. PICK h \in Seq(Frames) : h = Handled
  BY HandledType
<1>2. /\ Len(h) = Len(stack) /\ Len(h) \in Nat
      /\ \A i \in DOMAIN stack : h[i].at = stack[i].at /\ h[i].held = stack[i].held
  <2>1. Len(h) = Len(stack) /\ Len(h) \in Nat
    BY <1>1, HandledType
  <2>2. CASE stack = <<>>
    BY <1>1, <2>1, <2>2 DEF Handled
  <2>3. CASE stack # <<>>
    <3>1. \A i \in DOMAIN stack : stack[i] \in Frames
      BY DEF StackOK
    <3> QED
      BY <1>1, <2>1, <2>3, <3>1, TopType DEF Handled, Frames
  <2> QED
    BY <2>2, <2>3
<1>3. /\ stack' = Append(h, frame)
      /\ \A i \in 1..Len(h) : stack'[i] = h[i]
      /\ stack'[Len(h) + 1] = frame /\ Len(stack') = Len(h) + 1
  BY <1>1 DEF Enter
<1>4. /\ DOMAIN stack = 1..Len(h) /\ DOMAIN stack' = (1..Len(h)) \cup {Len(h) + 1}
  BY <1>1, <1>2, <1>3 DEF StackOK
<1> QED
  BY <1>2, <1>3, <1>4 DEF Holding

LEMMA LeaveHolds ==
    ASSUME StackOK, stack # <<>>, Top.at # "judge", Leave
    PROVE  Len(stack') = Len(stack) - 1 /\ \A o : Holding(o)' = Holding(o)
<1>1. Len(stack) \in 1..Len(stack) /\ DOMAIN stack = 1..Len(stack) /\ Len(stack) \in Nat
  BY TopType
<1>2. stack' = SubSeq(stack, 1, Len(stack) - 1)
  BY DEF Leave
<1>3. /\ DOMAIN stack' = 1..(Len(stack) - 1) /\ Len(stack') = Len(stack) - 1
      /\ \A i \in 1..(Len(stack) - 1) : stack'[i] = stack[i]
  BY <1>1, <1>2 DEF StackOK
<1>4. 1..Len(stack) = (1..(Len(stack) - 1)) \cup {Len(stack)}
  BY <1>1
<1> QED
  BY <1>1, <1>3, <1>4 DEF Holding, Top

(* A call in progress goes on: only the last frame may hold a reference    *)
(* more or less.                                                           *)
LEMMA GoOnHolds ==
    ASSUME StackOK, stack # <<>>, NEW frame \in Frames, GoOn(frame)
    PROVE  /\ Len(stack') = Len(stack)
           /\ \A o : Holding(o)' =
                IF frame.at = "judge" /\ frame.held = o
                THEN Holding(o) \cup {Len(stack)}
                ELSE Holding(o) \ {Len(stack)}
           /\ \A o : Len(stack) \in Holding(o) <=> Top.at = "judge" /\ Top.held = o
<1>1. Len(stack) \in 1..Len(stack) /\ DOMAIN stack = 1..Len(stack) /\ Len(stack) \in Nat
  BY TopType
<1>2. stack' = [stack EXCEPT ![Len(stack)] = frame]
  BY DEF GoOn
<1>3. Len(stack') = Len(stack) /\ DOMAIN stack' = DOMAIN stack
  BY <1>1, <1>2 DEF StackOK
<1>4. /\ stack'[Len(stack)] = frame
      /\ \A i \in DOMAIN stack \ {Len(stack)} : stack'[i] = stack[i]
  BY <1>1, <1>2 DEF StackOK
<1> QED
  BY <1>1, <1>3, <1>4 DEF Holding, Top

-----------------------------------------------------------------------------
(* A step that changes no reference, and no call that holds one.           *)
LEMMA CountStays ==
    ASSUME Counted, UNCHANGED <<output, refs>>, \A o : Holding(o)' = Holding(o),
           Len(stack') <= MaxDepth
    PROVE  Counted'
BY DEF Counted, RefsCounted, Holding

LEMMA OnStackCounted ==
    ASSUME Sound, Counted, UNCHANGED <<output, refs>>,
           \/ stack' = Handled
           \/ stack' = stack
           \/ /\ Len(stack) < MaxDepth
              /\ \E frame \in Frames : frame.at # "judge" /\ Enter(frame)
           \/ stack # <<>> /\ Top.at # "judge" /\ Leave
           \/ /\ stack # <<>> /\ Top.at # "judge"
              /\ \E frame \in Frames : frame.at # "judge" /\ GoOn(frame)
    PROVE  Counted'
<1>1. StackOK /\ MaxDepth \in Nat /\ Len(stack) \in Nat /\ Len(stack) <= MaxDepth
  BY OutputAssumption DEF Sound, Counted, StackOK
<1>2. CASE stack' = Handled
  BY <1>1, <1>2, HandledHolds, CountStays
<1>3. CASE stack' = stack
  BY <1>1, <1>3, CountStays DEF Holding
<1>4. CASE /\ Len(stack) < MaxDepth
           /\ \E frame \in Frames : frame.at # "judge" /\ Enter(frame)
  <2>1. PICK frame \in Frames : frame.at # "judge" /\ Enter(frame)
    BY <1>4
  <2>2. Len(stack') = Len(stack) + 1 /\ \A o : Holding(o)' = Holding(o)
    BY <1>1, <2>1, EnterHolds
  <2>3. Len(stack') <= MaxDepth
    BY <1>1, <1>4, <2>2
  <2> QED
    BY <2>2, <2>3, CountStays
<1>5. CASE stack # <<>> /\ Top.at # "judge" /\ Leave
  <2>1. Len(stack') = Len(stack) - 1 /\ \A o : Holding(o)' = Holding(o)
    BY <1>1, <1>5, LeaveHolds
  <2>2. Len(stack') <= MaxDepth
    BY <1>1, <2>1
  <2> QED
    BY <2>1, <2>2, CountStays
<1>6. CASE /\ stack # <<>> /\ Top.at # "judge"
           /\ \E frame \in Frames : frame.at # "judge" /\ GoOn(frame)
  <2>1. PICK frame \in Frames : frame.at # "judge" /\ GoOn(frame)
    BY <1>6
  <2>2. Len(stack') = Len(stack) /\ \A o : Holding(o)' = Holding(o)
    BY <1>1, <1>6, <2>1, GoOnHolds
  <2> QED
    BY <1>1, <2>2, CountStays
<1> QED
  BY <1>2, <1>3, <1>4, <1>5, <1>6

(* The steps of the pipe that leave references alone.                      *)
LEMMA StepsCounted ==
    ASSUME Sound, Counted,
           \/ Handle \/ Needed \/ Send \/ Accept \/ Reject \/ OfferToNone
           \/ EndCall \/ SetAskNone \/ \E r \in Requests : SetAsk(r)
    PROVE  Counted'
<1>1. CASE Handle
  BY <1>1, OnStackCounted DEF Handle, state
<1>2. CASE Needed
  <2>1. Frame("loop") \in Frames /\ Frame("loop").at = "loop"
    BY FrameType DEF Frame
  <2> QED
    BY <1>2, <2>1, OnStackCounted DEF Needed, Running, state
<1>3. CASE Send
  BY <1>3, OnStackCounted DEF Send, Running, state
<1>4. CASE Accept
  BY <1>4, OnStackCounted DEF Accept
<1>5. CASE Reject
  <2> DEFINE frame == [Top EXCEPT !.at = "error", !.event = "error"]
  <2>1. stack # <<>> /\ Top.at = "loop" /\ GoOn(frame) /\ UNCHANGED <<output, refs>>
    BY <1>5 DEF Reject, Offered, Running, state
  <2>2. frame \in Frames /\ frame.at = "error"
    BY <2>1, TopType DEF Frames, Event, Sound
  <2> QED
    BY <2>1, <2>2, OnStackCounted
<1>6. CASE OfferToNone
  BY <1>6, OnStackCounted DEF OfferToNone, Fail, state
<1>7. CASE EndCall
  BY <1>7, OnStackCounted DEF EndCall, EndSet, Running, state
<1>8. CASE SetAskNone
  BY <1>8, OnStackCounted DEF SetAskNone, Fail, state
<1>9. ASSUME NEW r \in Requests, SetAsk(r)
      PROVE  Counted'
  <2> DEFINE frame == [Top EXCEPT !.event = "provide"]
  <2>1. stack # <<>> /\ Top.at = "set" /\ GoOn(frame) /\ UNCHANGED <<output, refs>>
    BY <1>9 DEF SetAsk, Running, state
  <2>2. frame \in Frames /\ frame.at = "set"
    BY <2>1, TopType DEF Frames, Event, Sound
  <2> QED
    BY <2>1, <2>2, OnStackCounted
<1> QED
  BY <1>1, <1>2, <1>3, <1>4, <1>5, <1>6, <1>7, <1>8, <1>9

(* The calls that leave references alone.                                  *)
LEMMA CallsCounted ==
    ASSUME Sound, Counted,
           \/ Output \/ SetOutputFails
           \/ \E r \in Requests : Register(r) \/ Unregister(r)
           \/ \E f \in FlowDefs \cup {None} : StoreFlowDef(f)
    PROVE  Counted'
<1>1. CASE Output
  <2> DEFINE frame == [Frame("need") EXCEPT !.event = "need_output"]
  <2>1. frame \in Frames /\ frame.at = "need"
    BY FrameType DEF Frames, Frame, Event
  <2>2. Frame("loop") \in Frames /\ Frame("loop").at = "loop"
    BY FrameType DEF Frame
  <2>3. /\ Len(stack) < MaxDepth /\ UNCHANGED <<output, refs>>
        /\ stack' = Handled \/ Enter(frame) \/ Enter(Frame("loop"))
    BY <1>1 DEF Output, Called, state
  <2> QED
    BY <2>1, <2>2, <2>3, OnStackCounted
<1>2. CASE SetOutputFails
  BY <1>2, OnStackCounted DEF SetOutputFails, Fail, state
<1>3. ASSUME NEW r \in Requests, Register(r)
      PROVE  Counted'
  <2> DEFINE frame == [Frame("asked") EXCEPT !.event = "provide"]
  <2>1. frame \in Frames /\ frame.at = "asked"
    BY FrameType DEF Frames, Frame, Event
  <2>2. Len(stack) < MaxDepth /\ UNCHANGED <<output, refs>> /\ Enter(frame)
    BY <1>3 DEF Register, Called, state
  <2> QED
    BY <2>1, <2>2, OnStackCounted
<1>4. ASSUME NEW r \in Requests, Unregister(r)
      PROVE  Counted'
  BY <1>4, OnStackCounted DEF Unregister, state
<1>5. ASSUME NEW f \in FlowDefs \cup {None}, StoreFlowDef(f)
      PROVE  Counted'
  <2> DEFINE frame == [Frame("stored") EXCEPT !.event = "new_flow_def"]
  <2>1. frame \in Frames /\ frame.at = "stored"
    BY FrameType DEF Frames, Frame, Event
  <2>2. /\ Len(stack) < MaxDepth /\ UNCHANGED <<output, refs>>
        /\ stack' = Handled \/ Enter(frame)
    BY <1>5 DEF StoreFlowDef, Called
  <2> QED
    BY <2>1, <2>2, OnStackCounted
<1> QED
  BY <1>1, <1>2, <1>3, <1>4, <1>5

(* The call holds the output that it offered the flow definition to.       *)
LEMMA NeedOtherCounted ==
    ASSUME Sound, Counted, NeedOther
    PROVE  Counted'
<1> DEFINE frame == [Top EXCEPT !.at = "judge", !.event = "need_output", !.held = output]
<1>1. /\ stack # <<>> /\ Top.at = "error" /\ StackOK /\ GoOn(frame)
      /\ output' = output /\ refs' = Use(refs, output)
  BY DEF NeedOther, Running, Sound, state
<1>2. frame \in Frames /\ frame.at = "judge" /\ frame.held = output
  BY <1>1, TopType DEF Frames, Event, Sound, StateOK
<1>3. /\ Len(stack') = Len(stack)
      /\ \A o : Holding(o)' = IF output = o THEN Holding(o) \cup {Len(stack)}
                                            ELSE Holding(o) \ {Len(stack)}
      /\ \A o : Len(stack) \notin Holding(o)
  BY <1>1, <1>2, GoOnHolds
<1>4. refs' \in [Outputs -> Int] /\ Len(stack') <= MaxDepth
  BY <1>1, <1>3 DEF Counted, Use, Sound, StateOK
<1>5. ASSUME NEW o \in Outputs
      PROVE  refs'[o] = (IF o = output' THEN 1 ELSE 0) + Cardinality(Holding(o)')
  <2>1. refs[o] = (IF o = output THEN 1 ELSE 0) + Cardinality(Holding(o))
    BY DEF Counted, RefsCounted, Holding
  <2>2. IsFiniteSet(Holding(o)) /\ Cardinality(Holding(o)) \in Nat
    BY <1>1, HoldingFinite
  <2>3. CASE o = output
    <3>1. Cardinality(Holding(o)') = Cardinality(Holding(o)) + 1
      BY <1>3, <2>2, <2>3, FS_AddElement
    <3>2. refs'[o] = refs[o] + 1
      BY <1>1, <2>3, OutputAssumption DEF Use, Counted
    <3> QED
      BY <1>1, <2>1, <2>2, <2>3, <3>1, <3>2
  <2>4. CASE o # output
    <3>1. Holding(o)' = Holding(o)
      BY <1>3, <2>4
    <3>2. refs'[o] = refs[o]
      BY <1>1, <2>4 DEF Use, Counted
    <3> QED
      BY <1>1, <2>1, <2>4, <3>1, <3>2
  <2> QED
    BY <2>3, <2>4
<1> QED
  BY <1>4, <1>5 DEF Counted, RefsCounted, Holding

(* It gives the reference back, whatever the output is by then.            *)
LEMMA JudgeCounted ==
    ASSUME Sound, Counted, Judge
    PROVE  Counted'
<1>1. /\ stack # <<>> /\ Top.at = "judge" /\ StackOK
      /\ output' = output /\ refs' = Unuse(refs, Top.held)
  BY DEF Judge, Running, Sound
<1>2. Top \in Frames
  BY <1>1, TopType
<1>3. PICK frame \in Frames : frame.at = "loop" /\ GoOn(frame)
  <2>1. /\ [Frame("loop") EXCEPT !.retried = Top.retried] \in Frames
        /\ [Frame("loop") EXCEPT !.retried = TRUE] \in Frames
    BY <1>2, FrameType DEF Frames
  <2>2. /\ [Frame("loop") EXCEPT !.retried = Top.retried].at = "loop"
        /\ [Frame("loop") EXCEPT !.retried = TRUE].at = "loop"
    BY DEF Frame
  <2> QED
    BY <2>1, <2>2 DEF Judge
<1>4. /\ Len(stack') = Len(stack)
      /\ \A o : Holding(o)' = Holding(o) \ {Len(stack)}
      /\ \A o : Len(stack) \in Holding(o) <=> Top.held = o
  BY <1>1, <1>3, GoOnHolds
<1>5. Top.held \in Outputs \cup {None}
  BY <1>2 DEF Frames
<1>6. refs' \in [Outputs -> Int] /\ Len(stack') <= MaxDepth
  BY <1>1, <1>4, <1>5 DEF Counted, Unuse
<1>7. ASSUME NEW o \in Outputs
      PROVE  refs'[o] = (IF o = output' THEN 1 ELSE 0) + Cardinality(Holding(o)')
  <2>1. refs[o] = (IF o = output THEN 1 ELSE 0) + Cardinality(Holding(o))
    BY DEF Counted, RefsCounted, Holding
  <2>2. IsFiniteSet(Holding(o)) /\ Cardinality(Holding(o)) \in Nat
    BY <1>1, HoldingFinite
  <2>3. CASE o = Top.held
    <3>1. Cardinality(Holding(o)') = Cardinality(Holding(o)) - 1
      BY <1>4, <2>2, <2>3, FS_RemoveElement
    <3>2. refs'[o] = refs[o] - 1
      BY <1>1, <2>3, OutputAssumption DEF Unuse, Counted
    <3> QED
      BY <1>1, <2>1, <2>2, <2>3, <3>1, <3>2
  <2>4. CASE o # Top.held
    <3>1. Holding(o)' = Holding(o)
      BY <1>4, <2>4
    <3>2. refs'[o] = refs[o]
      BY <1>1, <1>5, <2>4 DEF Unuse, Counted
    <3> QED
      BY <1>1, <2>1, <2>4, <3>1, <3>2
  <2> QED
    BY <2>3, <2>4
<1> QED
  BY <1>6, <1>7 DEF Counted, RefsCounted, Holding

(* Another output, or none: the pipe's own reference moves.                *)
LEMMA OutputMoves ==
    ASSUME Sound, Counted, NEW o \in Outputs \cup {None},
           output' = o, refs' = Use(Unuse(refs, output), o),
           \A p : Holding(p)' = Holding(p), Len(stack') <= MaxDepth
    PROVE  Counted'
<1>1. output \in Outputs \cup {None} /\ None \notin Outputs
  BY OutputAssumption DEF Sound, StateOK
<1>2. /\ refs' \in [Outputs -> Int]
      /\ \A p \in Outputs : refs'[p] = refs[p] - (IF p = output THEN 1 ELSE 0)
                                               + (IF p = o THEN 1 ELSE 0)
  <2> DEFINE r == Unuse(refs, output)
  <2>1. /\ r \in [Outputs -> Int]
        /\ \A p \in Outputs : r[p] = refs[p] - (IF p = output THEN 1 ELSE 0)
    BY <1>1 DEF Unuse, Counted
  <2>2. refs' = Use(r, o)
    OBVIOUS
  <2> HIDE DEF r
  <2>3. /\ Use(r, o) \in [Outputs -> Int]
        /\ \A p \in Outputs : Use(r, o)[p] = r[p] + (IF p = o THEN 1 ELSE 0)
    BY <1>1, <2>1 DEF Use
  <2>4. \A p \in Outputs : refs[p] \in Int
    BY DEF Counted
  <2> QED
    BY <2>1, <2>2, <2>3, <2>4
<1>3. ASSUME NEW p \in Outputs
      PROVE  refs'[p] = (IF p = output' THEN 1 ELSE 0) + Cardinality(Holding(p)')
  <2>1. refs[p] = (IF p = output THEN 1 ELSE 0) + Cardinality(Holding(p))
    BY DEF Counted, RefsCounted, Holding
  <2>2. Cardinality(Holding(p)) \in Nat
    BY HoldingFinite DEF Sound
  <2> QED
    BY <1>2, <2>1, <2>2
<1> QED
  BY <1>2, <1>3 DEF Counted, RefsCounted, Holding

LEMMA SetOutputCounted ==
    ASSUME Sound, Counted, NEW o \in Outputs \cup {None}, SetOutput(o)
    PROVE  Counted'
<1>1. /\ Len(stack) < MaxDepth /\ StackOK
      /\ output' = o /\ refs' = Use(Unuse(refs, output), o)
      /\ stack' = Handled \/ Enter(Frame("set"))
  BY DEF SetOutput, Called, Sound
<1>2. Len(stack') <= MaxDepth /\ \A p : Holding(p)' = Holding(p)
  <2>1. Len(stack) \in Nat /\ MaxDepth \in Nat
    BY <1>1, OutputAssumption DEF StackOK
  <2>2. CASE stack' = Handled
    BY <1>1, <2>1, <2>2, HandledHolds
  <2>3. CASE Enter(Frame("set"))
    <3>1. Frame("set") \in Frames /\ Frame("set").at # "judge"
      BY FrameType DEF Frame
    <3>2. Len(stack') = Len(stack) + 1 /\ \A p : Holding(p)' = Holding(p)
      BY <1>1, <2>3, <3>1, EnterHolds
    <3> QED
      BY <1>1, <2>1, <3>2
  <2> QED
    BY <1>1, <2>2, <2>3
<1> QED
  BY <1>1, <1>2, OutputMoves

LEMMA CleanCounted ==
    ASSUME Sound, Counted, Clean
    PROVE  Counted'
<1>1. CASE CanUnregister
  <2>1. output' = None /\ refs' = Unuse(refs, output) /\ stack' = stack
    BY <1>1 DEF Clean
  <2>2. refs' = Use(Unuse(refs, output), None)
    BY <2>1 DEF Use
  <2>3. Len(stack') <= MaxDepth /\ \A p : Holding(p)' = Holding(p)
    BY <2>1 DEF Counted, Holding
  <2> QED
    BY <2>1, <2>2, <2>3, OutputMoves
<1>2. CASE ~CanUnregister
  BY <1>2, OnStackCounted DEF Clean, Fail, state
<1> QED
  BY <1>1, <1>2

-----------------------------------------------------------------------------
LEMMA InitCounted == Init => Counted
<1> SUFFICES ASSUME Init
             PROVE  Counted
  OBVIOUS
<1>1. \A o \in Outputs : {i \in DOMAIN stack : stack[i].at = "judge"
                                               /\ stack[i].held = o} = {}
  BY DEF Init
<1>2. Cardinality({}) = 0
  BY FS_EmptySet
<1> QED
  BY <1>1, <1>2, OutputAssumption DEF Init, Counted, RefsCounted

LEMMA NextCounted == Sound /\ Counted /\ [Next]_vars => Counted'
<1> SUFFICES ASSUME Sound, Counted, [Next]_vars
             PROVE  Counted'
  OBVIOUS
<1>1. CASE Step
  BY <1>1, StepsCounted, NeedOtherCounted, JudgeCounted DEF Step
<1>2. CASE Call
  BY <1>2, CallsCounted, SetOutputCounted DEF Call
<1>3. CASE Clean
  BY <1>3, CleanCounted
<1>4. CASE UNCHANGED vars
  BY <1>4, OnStackCounted DEF vars, state
<1> QED
  BY <1>1, <1>2, <1>3, <1>4 DEF Next

LEMMA CountInvariance == Spec => [](IInv /\ Counted)
<1>1. IInv => Sound
  BY DEF IInv
<1> QED
  BY <1>1, InitInv, NextInv, InitCounted, NextCounted, PTL DEF Spec

(* No reference on an output is lost or left over, whatever handlers do:   *)
(* the pipe has one on its output, and each call that waits to come back   *)
(* to the output it offered the flow definition to has another.            *)
THEOREM ReferencesCounted == Spec => []RefsCounted
<1>1. Counted => RefsCounted
  BY DEF Counted
<1> QED
  BY <1>1, CountInvariance, PTL

(* Types, of which counts of references that are never negative are part.  *)
THEOREM TypeCorrect == Spec => []TypeOK
<1>1. IInv /\ Counted => TypeOK
  <2> SUFFICES ASSUME IInv, Counted
               PROVE  TypeOK
    OBVIOUS
  <2>1. Sound
    BY DEF IInv
  <2>2. ASSUME NEW o \in Outputs
        PROVE  refs[o] \in Nat
    <3>1. refs[o] = (IF o = output THEN 1 ELSE 0) + Cardinality(Holding(o))
      BY DEF Counted, RefsCounted, Holding
    <3> QED
      BY <2>1, <3>1, HoldingFinite DEF Sound
  <2>3. refs \in [Outputs -> Nat]
    BY <2>2 DEF Counted
  <2> QED
    BY <2>1, <2>3 DEF TypeOK, Sound, StateOK, RequestsOK, OthersOK, StackOK, Counted
<1> QED
  BY <1>1, CountInvariance, PTL
=============================================================================
