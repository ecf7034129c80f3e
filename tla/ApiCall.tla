------------------------------ MODULE ApiCall ------------------------------
(***************************************************************************)
(* A call of the server's API: Call and CallReturnStream in                *)
(* client/api/call.go, listen and ListenReturnStream in                    *)
(* server/api/listener.go, StreamingReplyClient and StreamingReplyServer   *)
(* in common/natsutil.go.                                                  *)
(*                                                                         *)
(* A streaming call has six goroutines: the client's loop, its subscription*)
(* callback and the goroutine that sends the cancellation; the server's    *)
(* handler, the relay of callAPIReturnStream and the function that produces*)
(* results.  ret and iRes are unbuffered channels, retErr holds one error. *)
(***************************************************************************)
EXTENDS Naturals, Sequences

CONSTANT Scenarios
\* [stream, request: "ok" or what is wrong with it, fn: how the function ends,
\*  n: results, reject: the result at which the client's function fails, up: a
\*  server listens, recovery: PanicRecovery is on]

VARIABLES
  scenario,
  handler,   \* server's handler: "idle", "loop", "exit", "done"
  relay,     \* [pc, item]
  fn,        \* [pc, sent]
  iErrs,     \* "open", "closed" or the error in it
  retErr,    \* [buf, closed]
  wire,      \* messages on their way to the reply inbox
  callback,  \* message the client's callback offers on ret, or "none"
  errs,      \* client's error channel: "open", "closed" or the error
  client,    \* [pc, got, result]
  cancel,    \* "open", "closed", "sent", "blocked", "gone"
  crashed    \* a goroutine of the server panicked

serverVars == <<handler, relay, fn, iErrs, retErr, crashed>>
clientVars == <<callback, errs, client>>
vars == <<scenario, serverVars, wire, clientVars, cancel>>

Init ==
  /\ scenario \in Scenarios
  /\ handler = "idle" /\ relay = [pc |-> "idle", item |-> 0] /\ fn = [pc |-> "idle", sent |-> 0]
  /\ iErrs = "open" /\ retErr = [buf |-> <<>>, closed |-> FALSE]
  /\ wire = IF scenario.up THEN <<>> ELSE <<[kind |-> "none", item |-> 0]>>
  /\ callback = [kind |-> "empty", item |-> 0] /\ errs = "open"
  /\ client = [pc |-> "wait", got |-> <<>>, result |-> "none"]
  /\ cancel = "open" /\ crashed = FALSE

\* A reply is a result, the error header, the end of the stream, or one of these.
Codes == {"PermissionDenied", "Internal", "InvalidArgument", "Unknown"}
Msg(kind, item) == [kind |-> kind, item |-> item]
Reply(kind, item) == wire' = Append(wire, Msg(kind, item))
Live == scenario.up /\ ~crashed

---------------------------------------------------------------------------
(* Unary calls.                                                            *)

\* The code callAPI answers a failure with: only a fatal error is Internal.
Code(err) == IF err = "fatal" THEN "Internal" ELSE "Unknown"

\* listen and callAPI.  A request whose header cannot be decoded has no answer.
callAPI ==
  /\ Live /\ ~scenario.stream /\ handler = "idle"
  /\ LET Refuse(code) == Reply(code, 0) /\ UNCHANGED <<fn, crashed>>
         Run(pc) == fn' = [fn EXCEPT !.pc = pc]
     IN  \/ scenario.request = "version" /\ Refuse("PermissionDenied")
         \/ scenario.request = "middleware" /\ Refuse("Internal")
         \/ scenario.request = "unmarshal" /\ Refuse("InvalidArgument")
         \/ scenario.request = "header" /\ UNCHANGED <<wire, fn, crashed>>
         \/ /\ scenario.request = "ok" /\ Run(scenario.fn)
            /\ \/ scenario.fn = "ok" /\ Reply("result", 1) /\ UNCHANGED crashed
               \/ /\ scenario.fn \in {"error", "fatal"}
                  /\ Reply(Code(scenario.fn), 0) /\ UNCHANGED crashed
               \/ /\ scenario.fn = "panic" /\ scenario.recovery
                  /\ Reply("Internal", 0) /\ UNCHANGED crashed
               \/ /\ scenario.fn = "panic" /\ ~scenario.recovery
                  /\ crashed' = TRUE /\ UNCHANGED wire
  /\ handler' = "done"
  /\ UNCHANGED <<scenario, relay, iErrs, retErr, clientVars, cancel>>

Return(result) == client' = [client EXCEPT !.pc = "done", !.result = result]

\* Call makes an Internal error fatal again.
ErrorOf(code) == IF code = "Internal" THEN "fatal" ELSE "error"

Call ==
  /\ ~scenario.stream /\ client.pc = "wait" /\ wire # <<>>
  /\ LET m == Head(wire)
     IN  /\ client' = [pc |-> "done", got |-> IF m.kind = "result" THEN <<m.item>> ELSE <<>>,
                       result |-> CASE m.kind \in Codes -> ErrorOf(m.kind)
                                    [] m.kind = "none" -> "error"
                                    [] OTHER -> "ok"]
         /\ wire' = Tail(wire)
  /\ UNCHANGED <<scenario, serverVars, callback, errs, cancel>>

\* RequestMsg waits a minute; the answer may still come.
Timeout ==
  /\ ~scenario.stream /\ client.pc = "wait" /\ scenario.up
  /\ Return("timeout")
  /\ UNCHANGED <<scenario, serverVars, wire, callback, errs, cancel>>

---------------------------------------------------------------------------
(* The server of a streaming call.                                         *)

\* The handler subscribes to the cancel inbox and starts the relay.
StreamingReplyServer ==
  /\ Live /\ scenario.stream /\ handler = "idle"
  /\ handler' = "loop" /\ relay' = [relay EXCEPT !.pc = "check"]
  /\ UNCHANGED <<scenario, fn, iErrs, retErr, wire, clientVars, cancel, crashed>>

\* The checks of ListenReturnStream and callAPIReturnStream.
ListenReturnStream ==
  /\ Live /\ relay.pc = "check"
  /\ \/ /\ scenario.request \in {"version", "middleware"}
        /\ retErr.buf = <<>> /\ retErr' = [retErr EXCEPT !.buf = <<"error">>]
        /\ relay' = [relay EXCEPT !.pc = "close"] /\ UNCHANGED <<wire, fn>>
     \/ /\ scenario.request = "unmarshal" /\ Reply("InvalidArgument", 0)
        /\ relay' = [relay EXCEPT !.pc = "close"] /\ UNCHANGED <<retErr, fn>>
     \/ /\ scenario.request = "header"
        /\ relay' = [relay EXCEPT !.pc = "close"] /\ UNCHANGED <<retErr, fn, wire>>
     \/ /\ scenario.request = "ok"
        /\ relay' = [relay EXCEPT !.pc = "relay"] /\ fn' = [fn EXCEPT !.pc = "run"]
        /\ UNCHANGED <<retErr, wire>>
  /\ UNCHANGED <<scenario, handler, iErrs, clientVars, cancel, crashed>>

\* The function hands a result to the relay.
SendResult ==
  /\ Live /\ fn.pc = "run" /\ fn.sent < scenario.n /\ relay.pc = "relay"
  /\ fn' = [fn EXCEPT !.sent = @ + 1]
  /\ relay' = [pc |-> "forward", item |-> fn.sent + 1]
  /\ UNCHANGED <<scenario, handler, iErrs, retErr, wire, clientVars, cancel, crashed>>

\* It ends: with an error, or without.  Nothing recovers from its panic.
FnEnds ==
  /\ Live /\ fn.pc = "run" /\ fn.sent = scenario.n
  /\ fn' = [fn EXCEPT !.pc = scenario.fn]
  /\ iErrs' = CASE scenario.fn \in {"error", "fatal"} -> scenario.fn [] OTHER -> "closed"
  /\ crashed' = (scenario.fn = "panic")
  /\ UNCHANGED <<scenario, handler, relay, retErr, wire, clientVars, cancel>>

MutDropError ==
  /\ Live /\ relay.pc = "relay" /\ iErrs # "open"
  /\ relay' = [relay EXCEPT !.pc = "close"]
  /\ UNCHANGED <<scenario, handler, fn, iErrs, retErr, wire, clientVars, cancel, crashed>>

\* The relay passes an error on, if there is room, and returns.
RelayEnds ==
  /\ Live /\ relay.pc = "relay" /\ iErrs # "open"
  /\ \/ iErrs = "closed" /\ UNCHANGED retErr
     \/ /\ iErrs # "closed" /\ retErr.buf = <<>>
        /\ retErr' = [retErr EXCEPT !.buf = <<"error">>]
  /\ relay' = [relay EXCEPT !.pc = "close"]
  /\ UNCHANGED <<scenario, handler, fn, iErrs, wire, clientVars, cancel, crashed>>

MutNotClosed ==
  /\ Live /\ relay.pc = "close"
  /\ UNCHANGED vars

\* close(retErr).  A cancellation that waits for room panics.
CloseErrors ==
  /\ Live /\ relay.pc = "close"
  /\ retErr' = [retErr EXCEPT !.closed = TRUE] /\ relay' = [relay EXCEPT !.pc = "done"]
  /\ crashed' = (cancel = "blocked")
  /\ UNCHANGED <<scenario, handler, fn, iErrs, wire, clientVars, cancel>>

\* The handler takes a result from ret and publishes it.
ForwardResult ==
  /\ Live /\ handler = "loop" /\ relay.pc = "forward"
  /\ Reply("result", relay.item) /\ relay' = [relay EXCEPT !.pc = "relay"]
  /\ UNCHANGED <<scenario, handler, fn, iErrs, retErr, clientVars, cancel, crashed>>

\* The handler takes what is in retErr: a cancellation, an error or the end.
HandlerEnds ==
  /\ Live /\ handler = "loop" /\ (retErr.buf # <<>> \/ retErr.closed)
  /\ handler' = "exit"
  /\ IF retErr.buf = <<>>
       THEN Reply("eof", 0) /\ UNCHANGED <<retErr, cancel>>
       ELSE /\ retErr' = [retErr EXCEPT !.buf = IF cancel = "blocked" THEN <<"cancel">> ELSE <<>>]
            /\ cancel' = IF cancel = "blocked" THEN "gone" ELSE cancel
            /\ IF Head(retErr.buf) = "cancel" THEN UNCHANGED wire ELSE Reply("err", 0)
  /\ UNCHANGED <<scenario, relay, fn, iErrs, clientVars, crashed>>

\* The handler returns and unsubscribes from the cancel inbox.
Unsubscribe ==
  /\ Live /\ handler = "exit" /\ handler' = "done"
  /\ UNCHANGED <<scenario, relay, fn, iErrs, retErr, wire, clientVars, cancel, crashed>>

\* The cancellation comes in: retErr may be free, full or closed.
CancelArrives ==
  /\ Live /\ cancel = "sent"
  /\ \/ handler = "done" /\ cancel' = "gone" /\ UNCHANGED <<retErr, crashed>>
     \/ /\ handler \in {"loop", "exit"} /\ retErr.closed
        /\ crashed' = TRUE /\ cancel' = "gone" /\ UNCHANGED retErr
     \/ /\ handler \in {"loop", "exit"} /\ ~retErr.closed /\ retErr.buf = <<>>
        /\ retErr' = [retErr EXCEPT !.buf = <<"cancel">>] /\ cancel' = "gone" /\ UNCHANGED crashed
     \/ /\ handler \in {"loop", "exit"} /\ ~retErr.closed /\ retErr.buf # <<>>
        /\ cancel' = "blocked" /\ UNCHANGED <<retErr, crashed>>
  /\ UNCHANGED <<scenario, handler, relay, fn, iErrs, wire, clientVars>>

---------------------------------------------------------------------------
(* The client of a streaming call.                                         *)

Empty == Msg("empty", 0)

\* The subscription's callback: one message at a time.
Receive ==
  /\ scenario.stream /\ wire # <<>> /\ callback = Empty /\ client.pc = "wait"
  /\ wire' = Tail(wire)
  /\ IF Head(wire).kind \in {"err", "eof"}
       THEN errs' = (IF Head(wire).kind = "err" THEN "error" ELSE "closed") /\ UNCHANGED callback
       ELSE callback' = Head(wire) /\ UNCHANGED errs
  /\ UNCHANGED <<scenario, serverVars, client, cancel>>

\* The loop takes a message.  What says that no server listens looks like an
\* empty result.
TakeResult ==
  /\ client.pc = "wait" /\ callback # Empty
  /\ callback' = Empty
  /\ LET fails == callback.kind \in Codes \/ Len(client.got) + 1 = scenario.reject
     IN  IF fails
           THEN Return("error") /\ cancel' = "closed"
           ELSE /\ client' = [client EXCEPT !.got = Append(@, callback.item)]
                /\ UNCHANGED cancel
  /\ UNCHANGED <<scenario, serverVars, wire, errs>>

TakeError ==
  /\ scenario.stream /\ client.pc = "wait" /\ errs # "open"
  /\ Return(IF errs = "closed" THEN "ok" ELSE "error")
  /\ UNCHANGED <<scenario, serverVars, wire, callback, errs, cancel>>

\* close(cancel) and ctxCancel() come together: the goroutine that waits for
\* either may send the cancellation or just return.
SendCancel ==
  /\ cancel = "closed" /\ cancel' \in {"sent", "gone"}
  /\ UNCHANGED <<scenario, serverVars, wire, clientVars>>

ServerStep == \/ callAPI \/ StreamingReplyServer \/ ListenReturnStream \/ SendResult \/ FnEnds
              \/ RelayEnds \/ CloseErrors \/ ForwardResult \/ HandlerEnds \/ Unsubscribe
              \/ CancelArrives
ClientStep == Call \/ Receive \/ TakeResult \/ TakeError \/ SendCancel

Terminating == client.pc = "done" /\ cancel # "closed" /\ UNCHANGED vars
Waiting == /\ scenario.stream /\ client.pc = "wait" /\ ~Live /\ wire = <<>> /\ callback = Empty
           /\ errs = "open" /\ UNCHANGED vars

Next == ServerStep \/ ClientStep \/ Timeout \/ Terminating \/ Waiting

\* Every goroutine that can run does; a unary call that has no answer times out.
Spec == Init /\ [][Next]_vars /\ WF_vars(ServerStep) /\ WF_vars(ClientStep) /\ WF_vars(Timeout)

---------------------------------------------------------------------------
(* Properties.                                                             *)

\* Goroutines and channels keep their types.
TypeOK ==
  /\ handler \in {"idle", "loop", "exit", "done"}
  /\ relay.pc \in {"idle", "check", "relay", "forward", "close", "done"}
  /\ fn.sent \in 0 .. scenario.n /\ Len(retErr.buf) <= 1
  /\ client.result \in {"none", "ok", "error", "fatal", "timeout"}
  /\ cancel \in {"open", "closed", "sent", "blocked", "gone"}

\* A client gets the results in the order they were made, none twice and none
\* left out.  A call that returns without an error was carried out, and a stream
\* was received to its end.  A request whose header cannot be decoded and a
\* stream nobody serves are the exceptions.
SuccessIsReal ==
  scenario.up =>
    /\ \A i \in DOMAIN client.got : client.got[i] = i
    /\ client.result = "ok" /\ scenario.request # "header" =>
         /\ scenario.request = "ok" /\ fn.pc = "ok"
         /\ scenario.stream => Len(client.got) = scenario.n

\* A cancellation ends the stream, and nothing else: the handler exits, and the
\* server goes on.  Checked in no run, as it does not hold: a cancellation
\* that comes when the errors are closed is a send on a closed channel.
CancelOnlyEndsStream == crashed => fn.pc = "panic"

Returned == client.pc = "done" \/ (scenario.stream /\ ~Live)

\* A call returns, unless it is a stream whose server is missing or has crashed.
CallReturns == <>Returned
=============================================================================
