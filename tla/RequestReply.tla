---------------------------- MODULE RequestReply ----------------------------
(***************************************************************************)
(* What a caller of the extension's native transport is promised           *)
(* (PersistentNativeTransport.call, firefox-extension/src/lib/             *)
(* persistent-native-transport.ts): a call is settled at most once, and    *)
(* when it is answered, it is by the host's answer to that very call.      *)
(* Losing the connection settles any number of calls in one step.          *)
(***************************************************************************)
CONSTANTS Calls, None, Failed

VARIABLES
  issued, \* the calls made so far
  answer  \* per call: None, Failed, or the call whose answer settled it

promiseVars == <<issued, answer>>

RequestReplyInit == issued = {} /\ answer = [c \in Calls |-> None]

\* Some calls are made, and some open ones are settled.
Exchange ==
  /\ issued' \in SUBSET Calls /\ issued \subseteq issued'
  /\ answer' \in [Calls -> Calls \cup {None, Failed}]
  /\ \A c \in Calls : answer'[c] # answer[c] =>
       c \in issued' /\ answer[c] = None /\ answer'[c] \in {c, Failed}

RequestReply == RequestReplyInit /\ [][Exchange]_promiseVars

=============================================================================
