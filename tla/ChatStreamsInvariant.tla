------------------------ MODULE ChatStreamsInvariant ------------------------
(***************************************************************************)
(* The inductive invariant behind the theorems on the streamed AI reply:   *)
(* what each of the three goroutines has, in terms of what the one before  *)
(* it has handed on.                                                       *)
(***************************************************************************)
EXTENDS ChatStreams

Streaming(r) == pc[r] = "streaming"

\* No goroutine is running and nothing is left of an earlier stream.
AtRest(r) ==
  /\ provider[r] = "off" /\ produced[r] = 0 /\ ~broken[r]
  /\ relay[r] = "off" /\ content[r] = <<>> /\ failure[r] = <<>>
  /\ reply[r] = None /\ complete[r] = None
  /\ handler[r] = "off" /\ shown[r] = <<>> /\ verdicts[r] = <<>> /\ ~ended[r]

\* The relay has the chunks the provider read, in order, but for the one that
\* is on its way; the one an error overtook it never gets.
ProviderOK(r) ==
  LET got == Len(content[r]) IN
  /\ provider[r] # "off"
  /\ content[r] = Whole(got)
  /\ provider[r] = "sending" => produced[r] = got + 1
  /\ provider[r] = "reading" \/ (provider[r] = "done" /\ ~broken[r]) => produced[r] = got

\* A reply is stored after an end without an error, and either an error or a
\* stored reply is left behind.
RelayOK(r) ==
  /\ relay[r] # "off"
  /\ relay[r] = "forwarding" => content[r] # <<>>
  /\ relay[r] = "saving" \/ reply[r] # None => provider[r] = "done" /\ ~broken[r]
  /\ relay[r] = "touching" => reply[r] # None
  /\ reply[r] # None => relay[r] \in {"touching", "done"}
  /\ complete[r] # None => relay[r] = "done" /\ complete[r] = reply[r]
  /\ failure[r] # <<>> => relay[r] = "done"
  /\ relay[r] = "done" => failure[r] # <<>> \/ complete[r] # None

\* The stored reply, if it is still there, is what the relay received.
ReplyOK(r) ==
  reply[r] # None =>
    /\ reply[r] \in 1..lastId
    /\ reply[r] \in DOMAIN messages =>
         messages[reply[r]] = [ conversation |-> call[r].conversation,
                                user         |-> call[r].user,
                                content      |-> content[r] ]

\* How many chunks the relay has passed on, as long as it has not given up.
Passed(r) == Len(content[r]) - (IF relay[r] = "forwarding" THEN 1 ELSE 0)

\* The client was sent what was passed on, but for the chunk in hand, and a
\* verdict that agrees with what the relay left.
HandlerOK(r) ==
  LET sent == Len(shown[r]) IN
  /\ handler[r] # "off"
  /\ shown[r] = Whole(sent)
  /\ handler[r] = "writing" => hand[r] = sent + 1
  /\ failure[r] = <<>> /\ handler[r] \in {"opening", "ranging"} => sent = Passed(r)
  /\ failure[r] = <<>> /\ handler[r] = "writing" => sent + 1 = Passed(r)
  /\ handler[r] \in {"opening", "ranging", "writing"} => verdicts[r] = <<>>
  /\ handler[r] # "returned" => ~ended[r]
  /\ handler[r] = "closing" \/ ended[r] => Len(verdicts[r]) = 1
  /\ verdicts[r] = <<"ai_complete">> =>
       relay[r] = "done" /\ complete[r] # None /\ sent = Len(content[r])

StreamOK(r) ==
  /\ pc[r] = "idle" <=> r \notin DOMAIN call
  /\ ~Streaming(r) => AtRest(r)
  /\ Streaming(r)  => ProviderOK(r) /\ RelayOK(r) /\ ReplyOK(r) /\ HandlerOK(r)

IInv == TypeOK /\ \A r \in Requests : StreamOK(r)
=============================================================================
