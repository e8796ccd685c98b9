----------------------------- MODULE ChatStreams -----------------------------
(***************************************************************************)
(* The streamed AI reply: three goroutines joined by channels.             *)
(*                                                                         *)
(*   provider  reads the answer of OpenRouter chunk by chunk               *)
(*             (GenerateStream of internal/platform/openrouter)            *)
(*   relay     passes the chunks on, then stores the reply                 *)
(*             (createStreamingMessageInternal)                            *)
(*   handler   writes them to the client as server-sent events             *)
(*             (streamChatEvents of internal/handler)                      *)
(*                                                                         *)
(* The two chunk channels have no buffer: a send and its receive are one   *)
(* step.  The channels for the outcome have room for one value and are     *)
(* closed before the chunk channel, so that whoever sees the chunks end    *)
(* can read the outcome.  All three share the context of the HTTP request, *)
(* which ends when the handler returns or the client goes away.            *)
(***************************************************************************)
EXTENDS ChatConversations, SequencesExt

VARIABLES
  provider,  \* where the provider goroutine is
  produced,  \* how many chunks it has read
  broken,    \* it left an error in its error channel
  relay,     \* where the relay goroutine is
  content,   \* what the relay has received
  failure,   \* its error channel: it has room for one
  reply,     \* the id of the reply it stored
  complete,  \* what it left in its complete channel
  handler,   \* where the handler is
  hand,      \* the chunk it was passed last
  shown,     \* the chunks the client was sent
  verdicts,  \* the final events it was sent
  ended,     \* it was sent [DONE]
  canceled   \* the context of the request is over

providerVars == <<provider, produced, broken>>
relayVars    == <<relay, content, failure, reply, complete>>
handlerVars  == <<handler, hand, shown, verdicts, ended, canceled>>
vars == <<chatVars, providerVars, relayVars, handlerVars>>

-----------------------------------------------------------------------------

Failure == {"canceled", "provider", "empty", "save"}
Verdict == {"ai_complete", "error"}

TypeOK ==
  /\ ChatTypeOK
  /\ provider \in [Requests -> {"off", "reading", "sending", "done"}]
  /\ produced \in [Requests -> 0..MaxChunks]
  /\ broken \in [Requests -> BOOLEAN]
  /\ relay \in [Requests -> {"off", "receiving", "forwarding", "saving", "touching", "done"}]
  /\ content \in [Requests -> Seq(Chunks)]
  /\ failure \in [Requests -> Seq(Failure)]
  /\ \A r \in Requests : Len(failure[r]) <= 1
  /\ reply \in [Requests -> Ids \cup {None}]
  /\ complete \in [Requests -> Ids \cup {None}]
  /\ handler \in [Requests -> {"off", "opening", "ranging", "writing", "closing", "returned"}]
  /\ hand \in [Requests -> Chunks \cup {None}]
  /\ shown \in [Requests -> Seq(Chunks)]
  /\ verdicts \in [Requests -> Seq(Verdict)]
  /\ ended \in [Requests -> BOOLEAN]
  /\ canceled \in [Requests -> BOOLEAN]

Init ==
  /\ ChatInit
  /\ provider = [r \in Requests |-> "off"]
  /\ produced = [r \in Requests |-> 0]
  /\ broken = [r \in Requests |-> FALSE]
  /\ relay = [r \in Requests |-> "off"]
  /\ content = [r \in Requests |-> <<>>]
  /\ failure = [r \in Requests |-> <<>>]
  /\ reply = [r \in Requests |-> None]
  /\ complete = [r \in Requests |-> None]
  /\ handler = [r \in Requests |-> "off"]
  /\ hand = [r \in Requests |-> None]
  /\ shown = [r \in Requests |-> <<>>]
  /\ verdicts = [r \in Requests |-> <<>>]
  /\ ended = [r \in Requests |-> FALSE]
  /\ canceled = [r \in Requests |-> FALSE]

\* The goroutines start; the handler has its first event to write.
StartStream(r) ==
  /\ pc[r] = "generate"
  /\ call[r].op = "stream"
  /\ Goto(r, "streaming")
  /\ provider' = [provider EXCEPT ![r] = "reading"]
  /\ relay' = [relay EXCEPT ![r] = "receiving"]
  /\ handler' = [handler EXCEPT ![r] = "opening"]
  /\ UNCHANGED <<tables, call, produced, broken, content, failure, reply, complete,
                 hand, shown, verdicts, ended, canceled>>

-----------------------------------------------------------------------------
(* The provider.                                                           *)

NextChunk(r) ==
  /\ provider[r] = "reading"
  /\ produced[r] < MaxChunks
  /\ produced' = [produced EXCEPT ![r] = @ + 1]
  /\ provider' = [provider EXCEPT ![r] = "sending"]
  /\ UNCHANGED <<chatVars, broken, relayVars, handlerVars>>

\* [DONE], or a body that ends without it.
LastChunk(r) ==
  /\ provider[r] = "reading"
  /\ provider' = [provider EXCEPT ![r] = "done"]
  /\ UNCHANGED <<chatVars, produced, broken, relayVars, handlerVars>>

\* The call fails or the read does: an error answer, a broken connection, the
\* timeout of the client, the end of the context; or the context ends while
\* nobody takes the chunk.
Breaks(r) ==
  /\ provider' = [provider EXCEPT ![r] = "done"]
  /\ broken' = [broken EXCEPT ![r] = TRUE]
  /\ UNCHANGED <<chatVars, produced, relayVars, handlerVars>>

ReadFails(r)       == provider[r] = "reading" /\ Breaks(r)
ProviderCancels(r) == provider[r] = "sending" /\ canceled[r] /\ Breaks(r)

-----------------------------------------------------------------------------
(* The relay.                                                              *)

ReceiveChunk(r) ==
  /\ provider[r] = "sending"
  /\ relay[r] = "receiving"
  /\ provider' = [provider EXCEPT ![r] = "reading"]
  /\ content' = [content EXCEPT ![r] = Append(@, produced[r])]
  /\ relay' = [relay EXCEPT ![r] = "forwarding"]
  /\ UNCHANGED <<chatVars, produced, broken, failure, reply, complete, handlerVars>>

\* Mistake: a chunk the handler is not waiting for is dropped.
ForwardOrDrop(r) ==
  /\ relay[r] = "forwarding"
  /\ relay' = [relay EXCEPT ![r] = "receiving"]
  /\ \/ /\ handler[r] = "ranging"
        /\ handler' = [handler EXCEPT ![r] = "writing"]
        /\ hand' = [hand EXCEPT ![r] = Last(content[r])]
     \/ /\ handler[r] # "ranging"
        /\ UNCHANGED <<handler, hand>>
  /\ UNCHANGED <<chatVars, providerVars, content, failure, reply, complete, shown,
                 verdicts, ended, canceled>>

ForwardChunk(r) ==
  /\ relay[r] = "forwarding"
  /\ handler[r] = "ranging"
  /\ relay' = [relay EXCEPT ![r] = "receiving"]
  /\ handler' = [handler EXCEPT ![r] = "writing"]
  /\ hand' = [hand EXCEPT ![r] = Last(content[r])]
  /\ UNCHANGED <<chatVars, providerVars, content, failure, reply, complete, shown,
                 verdicts, ended, canceled>>

\* The relay leaves an error and closes its channels.
Report(r, e) ==
  /\ failure' = [failure EXCEPT ![r] = Append(@, e)]
  /\ relay' = [relay EXCEPT ![r] = "done"]

\* Mistake: the send does not watch the context.
RelayNeverCancels(r) ==
  /\ FALSE
  /\ Report(r, "canceled")
  /\ UNCHANGED <<chatVars, providerVars, content, reply, complete, handlerVars>>

\* Mistake: the relay returns without leaving an error.
RelayCancelsSilently(r) ==
  /\ relay[r] = "forwarding"
  /\ canceled[r]
  /\ relay' = [relay EXCEPT ![r] = "done"]
  /\ UNCHANGED <<chatVars, providerVars, content, failure, reply, complete, handlerVars>>

RelayCancels(r) ==
  /\ relay[r] = "forwarding"
  /\ canceled[r]
  /\ Report(r, "canceled")
  /\ UNCHANGED <<chatVars, providerVars, content, reply, complete, handlerVars>>

\* Mistake: what was received before an error is kept.
EndOfReplyKept(r) ==
  /\ relay[r] = "receiving"
  /\ provider[r] = "done"
  /\ \/ content[r] = <<>> /\ Report(r, "empty")
     \/ content[r] # <<>> /\ relay' = [relay EXCEPT ![r] = "saving"] /\ UNCHANGED failure
  /\ UNCHANGED <<chatVars, providerVars, content, reply, complete, handlerVars>>

\* Mistake: the relay goes on after it has reported the provider's error.
EndOfReplyGoesOn(r) ==
  /\ relay[r] = "receiving"
  /\ provider[r] = "done"
  /\ \/ ~broken[r] /\ content[r] = <<>> /\ Report(r, "empty")
     \/ /\ broken[r] \/ content[r] # <<>>
        /\ failure' = [failure EXCEPT ![r] = IF broken[r] THEN Append(@, "provider") ELSE @]
        /\ relay' = [relay EXCEPT ![r] = "saving"]
  /\ UNCHANGED <<chatVars, providerVars, content, reply, complete, handlerVars>>

\* The chunks have ended: the error channel is asked first, an empty reply is
\* an error, everything else is stored.
EndOfReply(r) ==
  /\ relay[r] = "receiving"
  /\ provider[r] = "done"
  /\ \/ broken[r] /\ Report(r, "provider")
     \/ ~broken[r] /\ content[r] = <<>> /\ Report(r, "empty")
     \/ /\ ~broken[r]
        /\ content[r] # <<>>
        /\ relay' = [relay EXCEPT ![r] = "saving"]
        /\ UNCHANGED failure
  /\ UNCHANGED <<chatVars, providerVars, content, reply, complete, handlerVars>>

SaveFails(r) == Report(r, IF canceled[r] THEN "canceled" ELSE "save")

\* SaveStreamingMessage: first the reply ...
SaveReply(r) ==
  /\ relay[r] = "saving"
  /\ \/ /\ InsertMessage(call[r].conversation, call[r].user, content[r])
        /\ reply' = [reply EXCEPT ![r] = lastId + 1]
        /\ relay' = [relay EXCEPT ![r] = "touching"]
        /\ UNCHANGED failure
     \/ /\ SaveFails(r)
        /\ UNCHANGED <<messages, lastId, reply>>
  /\ UNCHANGED <<conversations, pc, call, providerVars, content, complete, handlerVars>>

\* ... then the bump, which may find the conversation deleted.
TouchReply(r) ==
  /\ relay[r] = "touching"
  /\ \/ /\ Visible(call[r].conversation)
        /\ complete' = [complete EXCEPT ![r] = reply[r]]
        /\ relay' = [relay EXCEPT ![r] = "done"]
        /\ UNCHANGED failure
     \/ /\ SaveFails(r)
        /\ UNCHANGED complete
  /\ UNCHANGED <<chatVars, providerVars, content, reply, handlerVars>>

-----------------------------------------------------------------------------
(* The handler.  A write fails when the client is gone or too slow; then   *)
(* the handler returns, and the context of the request with it.            *)

HandlerReturns(r) ==
  /\ handler' = [handler EXCEPT ![r] = "returned"]
  /\ canceled' = [canceled EXCEPT ![r] = TRUE]

WriteFirst(r) ==
  /\ handler[r] = "opening"
  /\ \/ handler' = [handler EXCEPT ![r] = "ranging"] /\ UNCHANGED canceled
     \/ HandlerReturns(r)
  /\ UNCHANGED <<chatVars, providerVars, relayVars, hand, shown, verdicts, ended>>

WriteChunk(r) ==
  /\ handler[r] = "writing"
  /\ \/ /\ shown' = [shown EXCEPT ![r] = Append(@, hand[r])]
        /\ handler' = [handler EXCEPT ![r] = "ranging"]
        /\ UNCHANGED canceled
     \/ /\ HandlerReturns(r)
        /\ UNCHANGED shown
  /\ UNCHANGED <<chatVars, providerVars, relayVars, hand, verdicts, ended>>

\* The chunks have ended: an error, or the stored reply.
WriteVerdict(r) ==
  /\ handler[r] = "ranging"
  /\ relay[r] = "done"
  /\ \/ /\ verdicts' = [verdicts EXCEPT ![r] =
                          @ \o (IF failure[r] # <<>> THEN <<"error">>
                                ELSE IF complete[r] # None THEN <<"ai_complete">> ELSE <<>>)]
        /\ handler' = [handler EXCEPT ![r] = "closing"]
        /\ UNCHANGED canceled
     \/ /\ HandlerReturns(r)
        /\ UNCHANGED verdicts
  /\ UNCHANGED <<chatVars, providerVars, relayVars, hand, shown, ended>>

WriteDone(r) ==
  /\ handler[r] = "closing"
  /\ \E sent \in BOOLEAN : ended' = [ended EXCEPT ![r] = sent]
  /\ HandlerReturns(r)
  /\ UNCHANGED <<chatVars, providerVars, relayVars, hand, shown, verdicts>>

\* The server notices that the client has gone.
ClientLeaves(r) ==
  /\ pc[r] = "streaming"
  /\ ~canceled[r]
  /\ canceled' = [canceled EXCEPT ![r] = TRUE]
  /\ UNCHANGED <<chatVars, providerVars, relayVars, handler, hand, shown, verdicts, ended>>

-----------------------------------------------------------------------------

Finished(r) == provider[r] = "done" /\ relay[r] = "done" /\ handler[r] = "returned"

\* All three goroutines are gone; nothing is left of the request.
Over(r) ==
  /\ pc[r] = "streaming"
  /\ Finished(r)
  /\ Return(r)
  /\ provider' = [provider EXCEPT ![r] = "off"]
  /\ produced' = [produced EXCEPT ![r] = 0]
  /\ broken' = [broken EXCEPT ![r] = FALSE]
  /\ relay' = [relay EXCEPT ![r] = "off"]
  /\ content' = [content EXCEPT ![r] = <<>>]
  /\ failure' = [failure EXCEPT ![r] = <<>>]
  /\ reply' = [reply EXCEPT ![r] = None]
  /\ complete' = [complete EXCEPT ![r] = None]
  /\ handler' = [handler EXCEPT ![r] = "off"]
  /\ hand' = [hand EXCEPT ![r] = None]
  /\ shown' = [shown EXCEPT ![r] = <<>>]
  /\ verdicts' = [verdicts EXCEPT ![r] = <<>>]
  /\ ended' = [ended EXCEPT ![r] = FALSE]
  /\ canceled' = [canceled EXCEPT ![r] = FALSE]
  /\ UNCHANGED tables

ProviderStep(r) == NextChunk(r) \/ LastChunk(r) \/ ReadFails(r) \/ ProviderCancels(r)
RelayStep(r) ==
  ReceiveChunk(r) \/ ForwardChunk(r) \/ RelayCancels(r) \/ EndOfReply(r) \/ SaveReply(r) \/ TouchReply(r)
HandlerStep(r) == WriteFirst(r) \/ WriteChunk(r) \/ WriteVerdict(r) \/ WriteDone(r)

Next ==
  \/ ChatNext /\ UNCHANGED <<providerVars, relayVars, handlerVars>>
  \/ \E r \in Requests :
       \/ StartStream(r) \/ ProviderStep(r) \/ RelayStep(r) \/ HandlerStep(r)
       \/ ClientLeaves(r) \/ Over(r)

Spec == Init /\ [][Next]_vars

(* Goroutines that can run do run.  For the provider this holds because a
   read ends at the latest with the timeout of the HTTP client, for the
   handler because every write has a deadline, for the relay because a
   statement ends.                                                         *)
Fairness ==
  \A r \in Requests :
    WF_vars(ProviderStep(r)) /\ WF_vars(RelayStep(r)) /\ WF_vars(HandlerStep(r))

FairSpec == Spec /\ Fairness

-----------------------------------------------------------------------------
(* Properties.                                                             *)

\* A client that stays to [DONE] was sent exactly one of ai_complete and error
\* (streamChatEvents), whichever way the three goroutines came to their ends.
OneVerdict == \A r \in Requests : ended[r] => Len(verdicts[r]) = 1

\* ai_complete is the truth: the reply is in the table unless it was deleted
\* since, in the conversation and for the user that asked, and it is what the
\* client has read, chunk for chunk.
ShownIsStored ==
  \A r \in Requests :
    verdicts[r] = <<"ai_complete">> /\ complete[r] \in DOMAIN messages =>
      messages[complete[r]] = [ conversation |-> call[r].conversation,
                                user         |-> call[r].user,
                                content      |-> shown[r] ]

\* A reply is stored whole or not at all: never one cut short because the
\* client left or the provider failed.
WholeReplies ==
  \A r \in Requests :
    reply[r] \in DOMAIN messages =>
      /\ provider[r] = "done" /\ ~broken[r]
      /\ messages[reply[r]].content = Whole(produced[r])

\* Every stream comes to an end and leaves no goroutine behind, whoever stops
\* first and whoever waits for whom.
StreamsEnd == \A r \in Requests : pc[r] = "streaming" ~> Finished(r)
=============================================================================
