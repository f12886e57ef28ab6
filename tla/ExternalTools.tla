---------------------------- MODULE ExternalTools ----------------------------
(***************************************************************************)
(* External tool providers of Fairy (fairy/mcp_provider.go): each enabled  *)
(* provider is one child process spoken to over MCP, with a circuit        *)
(* breaker.  start, execute and close hold the provider's callMu for their *)
(* whole length, so a call that arrives while another is under way waits;  *)
(* the caller's own time limit (tool.go) runs while it waits.              *)
(***************************************************************************)
EXTENDS Naturals

CONSTANTS Providers,         \* configured providers
          EnabledProviders,  \* cfg.Enabled
          Callers,           \* tool sessions that may call a provider
          RemoteTools,       \* tools a child may offer
          AllowedTools,      \* cfg.AllowedTools
          ReadOnlyTools,     \* tools whose annotations say read-only and not destructive
          FailureThreshold, ResetTimeout,
          MaxInstant, MaxChildren, MaxFailures  \* bounds of the model

NoSession == 0
NoCaller == "nobody"
Manager == "manager"

ASSUME ExternalAssumption ==
    /\ EnabledProviders \subseteq Providers /\ {NoCaller, Manager} \cap Callers = {}
    /\ FailureThreshold \in Nat \ {0} /\ ResetTimeout \in Nat \ {0}
    /\ MaxInstant \in Nat \ {0} /\ MaxChildren \in Nat \ {0} /\ MaxFailures \in Nat \ {0}

VARIABLES provider,   \* per provider: mcpProvider
          children,   \* child processes that run, per provider
          lastChild,  \* number of child processes started
          callMu,     \* who holds the provider's callMu
          caller,     \* per caller: its call
          instant,    \* p.now()
          streak      \* ghost: failed attempts since the last success, and when the last one was

externalVars == <<provider, children, lastChild, callMu, caller, instant, streak>>

ProviderStates == [session : 0..MaxChildren, failures : Nat, circuitOpenUntil : 0..(MaxInstant + ResetTimeout),
                   startupFailed : BOOLEAN, closed : BOOLEAN, toolCount : SUBSET RemoteTools]
NotCalling == [step |-> "idle", to |-> NoCaller, expired |-> FALSE]

ExternalInit ==
    /\ provider = [p \in Providers |-> [session |-> NoSession, failures |-> 0, circuitOpenUntil |-> 0,
                                        startupFailed |-> FALSE, closed |-> FALSE, toolCount |-> {}]]
    /\ children = [p \in Providers |-> {}]
    /\ lastChild = 0
    /\ callMu = [p \in Providers |-> IF p \in EnabledProviders THEN Manager ELSE NoCaller]
    /\ caller = [c \in Callers |-> NotCalling]
    /\ instant = 1
    /\ streak = [p \in Providers |-> [failed |-> 0, at |-> 0]]

-----------------------------------------------------------------------------
(* Circuit breaker *)

CircuitOpen(p) == instant < provider[p].circuitOpenUntil

\* recordFailure
Failed(state, forceOpen) ==
    [state EXCEPT !.failures = @ + 1,
                  !.circuitOpenUntil = IF forceOpen \/ state.failures + 1 >= FailureThreshold
                                       THEN instant + ResetTimeout ELSE @]
\* recordSuccess
Succeeded(state) == [state EXCEPT !.failures = 0, !.circuitOpenUntil = 0, !.startupFailed = FALSE]

CountFailure(p) == streak' = [streak EXCEPT ![p] = [failed |-> @.failed + 1, at |-> instant]]

-----------------------------------------------------------------------------
(* connect *)

\* connect without a session: not while the circuit is open, and not for a
\* caller whose time is over.
MaySpawn(c, p) == ~CircuitOpen(p) /\ ~caller[c].expired

\* A new child process: after the circuit has closed again, and with the
\* session stored under mu.
Spawn(p) ==
    /\ lastChild < MaxChildren
    /\ lastChild' = lastChild + 1
    /\ children' = [children EXCEPT ![p] = @ \cup {lastChild'}]

\* Variant: dropSession forgets the child without ending it.
DroppedChildrenKept(p) == children[p]
\* dropSession, close: closeMCPSession ends the child.
DroppedChildren(p) == children[p] \ {provider[p].session}

\* start: connect, list the tools and keep those that are allowed and
\* read-only; any error is markStartupFailed.
Start(p) ==
    /\ callMu[p] = Manager /\ ~provider[p].closed
    /\ \/ /\ Spawn(p)
          /\ \E offered \in SUBSET RemoteTools :
                provider' = [provider EXCEPT ![p].session = lastChild', ![p].toolCount = offered \cap AllowedTools \cap ReadOnlyTools]
          /\ UNCHANGED streak
       \/ /\ provider' = [provider EXCEPT ![p].startupFailed = TRUE, ![p].failures = @ + 1]
          /\ UNCHANGED <<children, lastChild>>
          /\ streak' = [streak EXCEPT ![p].failed = @ + 1]
    /\ callMu' = [callMu EXCEPT ![p] = NoCaller]
    /\ UNCHANGED <<caller, instant>>

\* mcpTool.Execute: only a tool that start kept can be called, also after its
\* session is gone.
Call(c, p) ==
    /\ caller[c].step = "idle" /\ provider[p].toolCount # {}
    /\ provider[p].failures < MaxFailures
    /\ caller' = [caller EXCEPT ![c] = [step |-> "waiting", to |-> p, expired |-> FALSE]]
    /\ UNCHANGED <<provider, children, lastChild, callMu, instant, streak>>

\* The turn is stopped or its tool time limit passes, also while it waits for callMu.
Expire(c) ==
    /\ caller[c].step # "idle" /\ ~caller[c].expired
    /\ caller' = [caller EXCEPT ![c].expired = TRUE]
    /\ UNCHANGED <<provider, children, lastChild, callMu, instant, streak>>

Lock(c) ==
    LET p == caller[c].to
    IN  /\ caller[c].step = "waiting" /\ callMu[p] = NoCaller
        /\ callMu' = [callMu EXCEPT ![p] = c]
        /\ caller' = [caller EXCEPT ![c].step = "connect"]
        /\ UNCHANGED <<provider, children, lastChild, instant, streak>>

Return(c) ==
    /\ callMu' = [callMu EXCEPT ![caller[c].to] = NoCaller]
    /\ caller' = [caller EXCEPT ![c] = NotCalling]

\* connect within execute: a session that is there is used whatever the
\* circuit says; a closed provider, an open circuit and a child that does not
\* start are failures.
Connect(c) ==
    LET p == caller[c].to
    IN  /\ caller[c].step = "connect"
        /\ \/ /\ provider[p].session # NoSession /\ ~provider[p].closed
              /\ caller' = [caller EXCEPT ![c].step = "call"]
              /\ UNCHANGED <<provider, children, lastChild, callMu, streak>>
           \/ /\ provider[p].session = NoSession /\ ~provider[p].closed /\ MaySpawn(c, p)
              /\ Spawn(p)
              /\ provider' = [provider EXCEPT ![p].session = lastChild', ![p].circuitOpenUntil = 0]
              /\ caller' = [caller EXCEPT ![c].step = "call"]
              /\ UNCHANGED <<callMu, streak>>
           \/ /\ provider[p].closed \/ provider[p].session = NoSession
              /\ provider' = [provider EXCEPT ![p] = Failed(IF provider[p].closed \/ CircuitOpen(p) THEN @ ELSE [@ EXCEPT !.circuitOpenUntil = 0], FALSE)]
              /\ Return(c) /\ CountFailure(p)
              /\ UNCHANGED <<children, lastChild>>
        /\ UNCHANGED instant

\* session.CallTool fails, certainly when the caller's time is over: the child
\* is ended and the circuit opens at once.
CallFails(c) ==
    LET p == caller[c].to
    IN  /\ caller[c].step = "call"
        /\ children' = [children EXCEPT ![p] = DroppedChildren(p)]
        /\ provider' = [provider EXCEPT ![p] = Failed([@ EXCEPT !.session = NoSession], TRUE)]
        /\ Return(c) /\ CountFailure(p)
        /\ UNCHANGED <<lastChild, instant>>

\* Arguments that cannot be decoded say nothing about the provider.
ArgumentsRejected(c) ==
    /\ caller[c].step = "call"
    /\ Return(c)
    /\ UNCHANGED <<provider, children, lastChild, instant, streak>>

\* An error result, a request for input or an output that cannot be
\* normalised: the child stays.
ResultRejected(c) ==
    LET p == caller[c].to
    IN  /\ caller[c].step = "call" /\ ~caller[c].expired
        /\ provider' = [provider EXCEPT ![p] = Failed(@, FALSE)]
        /\ Return(c) /\ CountFailure(p)
        /\ UNCHANGED <<children, lastChild, instant>>

CallSucceeds(c) ==
    LET p == caller[c].to
    IN  /\ caller[c].step = "call" /\ ~caller[c].expired
        /\ provider' = [provider EXCEPT ![p] = Succeeded(@)]
        /\ Return(c)
        /\ streak' = [streak EXCEPT ![p] = [failed |-> 0, at |-> 0]]
        /\ UNCHANGED <<children, lastChild, instant>>

\* ExternalToolManager.Close, one provider after the other.
CloseProvider(p) ==
    /\ callMu[p] = NoCaller /\ ~provider[p].closed
    /\ children' = [children EXCEPT ![p] = DroppedChildren(p)]
    /\ provider' = [provider EXCEPT ![p].closed = TRUE, ![p].session = NoSession]
    /\ UNCHANGED <<lastChild, callMu, caller, instant, streak>>

ClockAdvances ==
    /\ instant < MaxInstant /\ instant' = instant + 1
    /\ UNCHANGED <<provider, children, lastChild, callMu, caller, streak>>

ExternalNext ==
    \/ \E p \in Providers : Start(p) \/ CloseProvider(p)
    \/ \E c \in Callers : \/ \E p \in Providers : Call(c, p)
                          \/ Expire(c) \/ Lock(c) \/ Connect(c) \/ CallFails(c) \/ ArgumentsRejected(c) \/ ResultRejected(c) \/ CallSucceeds(c)
    \/ ClockAdvances

ExternalSpec == ExternalInit /\ [][ExternalNext]_externalVars

-----------------------------------------------------------------------------
(* Properties *)

\* The provider records, the children and the calls have their types.
ExternalTypeOK ==
    /\ provider \in [Providers -> ProviderStates]
    /\ children \in [Providers -> SUBSET (1..MaxChildren)] /\ lastChild \in 0..MaxChildren
    /\ callMu \in [Providers -> Callers \cup {Manager, NoCaller}]
    /\ caller \in [Callers -> [step : {"idle", "waiting", "connect", "call"}, to : Providers \cup {NoCaller}, expired : BOOLEAN]]
    /\ instant \in 1..MaxInstant

\* connect, dropSession and close: every child that runs is the session of its
\* provider, so that a provider never has two and a closed one has none,
\* whatever calls failed, expired or were queued meanwhile.
ChildrenAreSessions ==
    \A p \in Providers :
        /\ children[p] = (IF provider[p].session = NoSession THEN {} ELSE {provider[p].session})
        /\ provider[p].closed => children[p] = {}

\* recordFailure: the counter is the number of failures since the last
\* success, and when it has reached the threshold by failed calls the circuit
\* stays open for ResetTimeout after the last of them.
CircuitFollowsFailures ==
    \A p \in Providers :
        /\ provider[p].failures = streak[p].failed
        /\ streak[p].failed >= FailureThreshold /\ streak[p].at > 0 /\ instant < streak[p].at + ResetTimeout => CircuitOpen(p)

\* connect: while the circuit is open no child is started; only a child that
\* was there before may be used.
OpenCircuitStartsNothing ==
    [][\A p \in Providers : CircuitOpen(p) => children'[p] \subseteq children[p]]_externalVars

\* mcp_provider.go: whatever calls failed, expired or were queued, a provider
\* has the one child it talks to, and a child that keeps failing is left alone.
ProvidersAreSound == [](ExternalTypeOK /\ ChildrenAreSessions /\ CircuitFollowsFailures) /\ OpenCircuitStartsNothing
=============================================================================
