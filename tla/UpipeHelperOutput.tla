------------------------- MODULE UpipeHelperOutput -------------------------
(***************************************************************************)
(* The output of a pipe: its flow definition, and the requests it forwards *)
(* (include/upipe/upipe_helper_output.h, which 149 pipes share).  Calls    *)
(* and probes nest: while a call of the pipe waits for a probe, or for the *)
(* answer to a request, the handler may call the pipe again.  The stack    *)
(* holds the calls that are not finished, and the event that each is in.   *)
(*                                                                         *)
(* An output accepts a flow definition or does not, and never calls back   *)
(* meanwhile.  Two flow definitions are equal if their dictionaries are.   *)
(***************************************************************************)
EXTENDS Integers, Sequences, FiniteSets

CONSTANTS
    Outputs,        \* pipes that may be set as the output
    FlowDefs,
    Requests,       \* of the pipe, or proxies for those of the upstream pipe
    None,           \* NULL
    Handlers,       \* for each event, the calls its handlers may make
    MaxDepth        \* of nested calls

Event == {"need_output", "error", "new_flow_def", "provide"}
Calls == {"output", "set_output", "clear_output", "store_flow_def",
          "register", "unregister"}

ASSUME OutputAssumption ==
    /\ None \notin Outputs /\ None \notin FlowDefs
    /\ Handlers \in [Event -> SUBSET Calls]
    /\ MaxDepth \in Nat \ {0}

VARIABLES
    output, flow_def, output_state,     \* of the pipe
    request_list, registered,           \* and the flag of each request
    offered,    \* the last flow definition offered to an output
    accepted,   \* whether it accepted it
    asked,      \* the requests registered at each output
    refs,       \* references of the pipe on each output
    stack,
    life        \* "alive", "freed", or the assertion that failed

state == <<output, flow_def, output_state>>
requests == <<request_list, registered, asked>>
others == <<offered, accepted>>
vars == <<state, requests, others, refs, stack, life>>

States == {"NONE", "VALID", "INVALID"}
Frames == [at : {"need", "loop", "error", "judge", "set", "asked", "stored"},
           event : Event \cup {None}, retried : BOOLEAN, held : Outputs \cup {None}]
Frame(at) == [at |-> at, event |-> None, retried |-> FALSE, held |-> None]

(* upipe_foo_init_output                                                   *)
Init ==
    /\ output = None /\ flow_def = None /\ output_state = "NONE"
    /\ request_list = {} /\ registered = {}
    /\ offered = [o \in Outputs |-> None]
    /\ accepted = [o \in Outputs |-> FALSE]
    /\ asked = [o \in Outputs |-> {}]
    /\ refs = [o \in Outputs |-> 0]
    /\ stack = <<>> /\ life = "alive"

-----------------------------------------------------------------------------
(* The calls in progress.                                                  *)
Top == stack[Len(stack)]
Running(at) == life = "alive" /\ stack # <<>> /\ Top.at = at /\ Top.event = None

(* The pipe is called from outside, or from a handler, once per event.     *)
Called(call) ==
    /\ life = "alive"
    /\ Len(stack) < MaxDepth
    /\ stack # <<>> => Top.event # None /\ call \in Handlers[Top.event]

Handled == IF stack = <<>> THEN stack ELSE [stack EXCEPT ![Len(stack)].event = None]
Enter(frame) == stack' = Append(Handled, frame)
GoOn(frame) == stack' = [stack EXCEPT ![Len(stack)] = frame]
Leave == stack' = SubSeq(stack, 1, Len(stack) - 1)

(* The handler returns without a call.                                     *)
Handle ==
    /\ life = "alive" /\ stack # <<>> /\ Top.event # None
    /\ stack' = Handled
    /\ UNCHANGED <<state, requests, others, refs, life>>

Fail(assertion) ==
    /\ life' = assertion
    /\ UNCHANGED <<state, requests, others, refs, stack>>

Use(r, o) == IF o = None THEN r ELSE [r EXCEPT ![o] = @ + 1]
Unuse(r, o) == IF o = None THEN r ELSE [r EXCEPT ![o] = @ - 1]

-----------------------------------------------------------------------------
(* upipe_foo_output, of a uref                                             *)
Output ==
    /\ Called("output")
    /\ CASE flow_def = None -> stack' = Handled
         [] flow_def # None /\ output = None ->
              Enter([Frame("need") EXCEPT !.event = "need_output"])
         [] OTHER -> Enter(Frame("loop"))
    /\ UNCHANGED <<state, requests, others, refs, life>>

Needed ==
    /\ Running("need")
    /\ IF output = None THEN Leave ELSE GoOn(Frame("loop"))
    /\ UNCHANGED <<state, requests, others, refs, life>>

(* Without a flow definition, with one that is known to be rejected, or    *)
(* accepted: the uref is dropped, or sent to the output.                   *)
Send ==
    /\ Running("loop")
    /\ flow_def = None \/ output_state # "NONE"
    /\ Leave
    /\ UNCHANGED <<state, requests, others, refs, life>>

(* The flow definition is offered first.                                   *)
Offered(accept) ==
    /\ Running("loop")
    /\ flow_def # None /\ output_state = "NONE" /\ output # None
    /\ offered' = [offered EXCEPT ![output] = flow_def]
    /\ accepted' = [accepted EXCEPT ![output] = accept]

Accept ==
    /\ Offered(TRUE)
    /\ output_state' = "VALID"
    /\ UNCHANGED <<output, flow_def, requests, refs, stack, life>>

Reject ==
    /\ Offered(FALSE)
    /\ GoOn([Top EXCEPT !.at = "error", !.event = "error"])
    /\ UNCHANGED <<state, requests, refs, life>>

OfferToNone ==
    /\ Running("loop")
    /\ flow_def # None /\ output_state = "NONE" /\ output = None
    /\ Fail("upipe != NULL")

NeedOther ==
    /\ Running("error")
    /\ refs' = Use(refs, output)
    /\ GoOn([Top EXCEPT !.at = "judge", !.event = "need_output", !.held = output])
    /\ UNCHANGED <<state, requests, others, life>>

(* Mutated forms, named after the mistake, precede the steps they mutate.  *)
JudgeForgetsRetry ==
    /\ Running("judge")
    /\ output_state' = IF Top.held = output THEN "INVALID" ELSE output_state
    /\ refs' = Unuse(refs, Top.held)
    /\ GoOn(Frame("loop"))
    /\ UNCHANGED <<output, flow_def, requests, others, life>>

JudgeNoRelease ==
    /\ Running("judge")
    /\ IF Top.held = output \/ Top.retried
       THEN output_state' = "INVALID" /\ GoOn([Frame("loop") EXCEPT !.retried = Top.retried])
       ELSE GoOn([Frame("loop") EXCEPT !.retried = TRUE]) /\ UNCHANGED output_state
    /\ UNCHANGED <<output, flow_def, requests, others, refs, life>>

Judge ==
    /\ Running("judge")
    /\ IF Top.held = output \/ Top.retried
       THEN output_state' = "INVALID" /\ GoOn([Frame("loop") EXCEPT !.retried = Top.retried])
       ELSE GoOn([Frame("loop") EXCEPT !.retried = TRUE]) /\ UNCHANGED output_state
    /\ refs' = Unuse(refs, Top.held)
    /\ UNCHANGED <<output, flow_def, requests, others, life>>

-----------------------------------------------------------------------------
(* upipe_foo_register_output_request, upipe_foo_alloc_output_proxy         *)
Ask(r) ==
    /\ registered' = registered \cup {r}
    /\ asked' = [asked EXCEPT ![output] = @ \cup {r}]

Register(r) ==
    /\ Called("register")
    /\ r \notin request_list
    /\ request_list' = request_list \cup {r}
    /\ IF output = None THEN UNCHANGED <<registered, asked>> ELSE Ask(r)
    /\ Enter([Frame("asked") EXCEPT !.event = "provide"])
    /\ UNCHANGED <<state, others, refs, life>>

UnregisterSilently(r) ==
    /\ Called("unregister")
    /\ r \in request_list
    /\ request_list' = request_list \ {r}
    /\ registered' = registered \ {r}
    /\ stack' = Handled
    /\ UNCHANGED <<state, asked, others, refs, life>>

(* upipe_foo_unregister_output_request, upipe_foo_free_output_proxy        *)
Unregister(r) ==
    /\ Called("unregister")
    /\ r \in request_list
    /\ request_list' = request_list \ {r}
    /\ IF output # None /\ r \in registered
       THEN /\ registered' = registered \ {r}
            /\ asked' = [asked EXCEPT ![output] = @ \ {r}]
       ELSE UNCHANGED <<registered, asked>>
    /\ stack' = Handled
    /\ UNCHANGED <<state, others, refs, life>>

(* upipe_unregister_request, for all requests at the output: it asserts    *)
(* that they are registered.                                               *)
CanUnregister == output # None => request_list \subseteq registered

UnregisterAll ==
    IF output = None THEN UNCHANGED <<registered, asked>>
    ELSE /\ registered' = registered \ request_list
         /\ asked' = [asked EXCEPT ![output] = @ \ request_list]

-----------------------------------------------------------------------------
StoreFlowDefNoReset(f) ==
    /\ Called("store_flow_def")
    /\ flow_def' = f
    /\ IF f = None \/ f = flow_def THEN stack' = Handled
       ELSE Enter([Frame("stored") EXCEPT !.event = "new_flow_def"])
    /\ UNCHANGED <<output, output_state, requests, others, refs, life>>

(* upipe_foo_store_flow_def                                                *)
StoreFlowDef(f) ==
    /\ Called("store_flow_def")
    /\ flow_def' = f
    /\ output_state' = IF f # None /\ f = flow_def THEN output_state ELSE "NONE"
    /\ IF f = None \/ f = flow_def THEN stack' = Handled
       ELSE Enter([Frame("stored") EXCEPT !.event = "new_flow_def"])
    /\ UNCHANGED <<output, requests, others, refs, life>>

(* upipe_foo_set_output                                                    *)
SetOutput(o) ==
    /\ Called(IF o = None THEN "clear_output" ELSE "set_output")
    /\ CanUnregister
    /\ UnregisterAll
    /\ refs' = Use(Unuse(refs, output), o)
    /\ output' = o
    /\ output_state' = "NONE"
    /\ IF o = None THEN stack' = Handled ELSE Enter(Frame("set"))
    /\ UNCHANGED <<flow_def, request_list, others, life>>

SetOutputFails ==
    /\ Called("set_output") \/ Called("clear_output")
    /\ ~CanUnregister
    /\ Fail("urequest->registered")

(* The requests that are not registered, in the order of the list, which   *)
(* is left open here.                                                      *)
Unasked == request_list \ registered

SetAsk(r) ==
    /\ Running("set")
    /\ r \in Unasked
    /\ output # None
    /\ Ask(r)
    /\ GoOn([Top EXCEPT !.event = "provide"])
    /\ UNCHANGED <<state, request_list, others, refs, life>>

SetAskNone ==
    /\ Running("set")
    /\ Unasked # {} /\ output = None
    /\ Fail("upipe != NULL")

(* These calls have nothing left to do.                                    *)
EndSet == Running("set") /\ Unasked = {}
EndCall ==
    /\ EndSet \/ Running("asked") \/ Running("stored")
    /\ Leave
    /\ UNCHANGED <<state, requests, others, refs, life>>

(* upipe_foo_clean_output, when the pipe is freed                          *)
Clean ==
    /\ life = "alive" /\ stack = <<>>
    /\ IF CanUnregister
       THEN /\ life' = "freed"
            /\ UnregisterAll
            /\ request_list' = {}
            /\ refs' = Unuse(refs, output)
            /\ output' = None /\ flow_def' = None
            /\ UNCHANGED <<output_state, others, stack>>
       ELSE Fail("urequest->registered")

-----------------------------------------------------------------------------
(* The pipe goes on, and handlers return.                                  *)
Step ==
    \/ Handle \/ Needed \/ Send \/ Accept \/ Reject \/ OfferToNone
    \/ NeedOther \/ Judge \/ EndCall \/ SetAskNone
    \/ \E r \in Requests : SetAsk(r)

Call ==
    \/ Output \/ SetOutputFails
    \/ \E r \in Requests : Register(r) \/ Unregister(r)
    \/ \E f \in FlowDefs \cup {None} : StoreFlowDef(f)
    \/ \E o \in Outputs \cup {None} : SetOutput(o)

Next == Step \/ Call \/ Clean

Spec == Init /\ [][Next]_vars
FairSpec == Spec /\ WF_vars(Step)

-----------------------------------------------------------------------------
TypeOK ==
    /\ output \in Outputs \cup {None} /\ flow_def \in FlowDefs \cup {None}
    /\ output_state \in States
    /\ request_list \subseteq Requests /\ registered \subseteq Requests
    /\ offered \in [Outputs -> FlowDefs \cup {None}]
    /\ accepted \in [Outputs -> BOOLEAN]
    /\ asked \in [Outputs -> SUBSET Requests]
    /\ refs \in [Outputs -> Nat]
    /\ stack \in Seq(Frames) /\ Len(stack) <= MaxDepth

(* UPIPE_HELPER_OUTPUT_VALID, "output defined and flow def accepted"       *)
(* (upipe_helper_output.h:52): urefs only go to an output that was offered *)
(* the present flow definition, and accepted it.                           *)
Described ==
    output_state = "VALID" /\ life = "alive" =>
      /\ output # None
      /\ flow_def # None => offered[output] = flow_def /\ accepted[output]

Setting == \E i \in DOMAIN stack : stack[i].at = "set"

(* The output has the requests of the pipe, no former one has any, and     *)
(* none waits unless the output is being set.                              *)
RequestsFollow ==
    /\ \A o \in Outputs : asked[o] = IF o = output THEN registered ELSE {}
    /\ registered \subseteq request_list
    /\ output = None => registered = {}
    /\ output # None /\ ~Setting => Unasked = {}

(* The pipe has one reference on its output, and one for each call that    *)
(* goes back to it: none is lost, or left over in the end.                 *)
RefsCounted ==
    \A o \in Outputs :
      refs[o] = (IF o = output THEN 1 ELSE 0)
                + Cardinality({i \in DOMAIN stack : stack[i].at = "judge"
                                                    /\ stack[i].held = o})

(* Every call returns, whatever handlers do in between.                    *)
Returns == []<>(stack = <<>> \/ life # "alive")
=============================================================================
