------------------------------ MODULE History ------------------------------
(***************************************************************************)
(* The paged reads of envelopes: GET /v1/sync/pending and GET              *)
(* /v1/conversations/<id>/envelopes (by cursor, and with the older         *)
(* parameter since), followed by one client page after page while          *)
(* envelopes are sent, acknowledged and expire.                            *)
(*                                                                         *)
(* server_timestamp is in seconds and taken before the row is stored, so   *)
(* rows of one second share it and rows do not appear in its order.  A     *)
(* cursor is "<timestamp>|<envelope_id>", here the pair; envelope ids are  *)
(* numbers, which compare as the column does.  size_t has SizeMod values.  *)
(***************************************************************************)
EXTENDS EnvelopeRepository, FiniteSets

CONSTANTS
  Reader,     \* the device that reads
  PageLimits, \* values of the query parameter limit, in 0..SizeMod-1
  SizeMod,    \* 2^w, the number of values of size_t
  Senders,    \* number of threads that run SendEnvelope
  MaxClock    \* bound on the clock

ASSUME PagesAssumption ==
  /\ Reader \in Devices
  /\ IsFiniteSet(Envelopes) /\ Envelopes \subseteq Nat
  /\ SizeMod \in Nat /\ SizeMod >= 2
  /\ PageLimits \subseteq 0..(SizeMod - 1)
  /\ Senders \in Nat
  /\ MaxClock \in Nat \ {0}

VARIABLES
  clock,
  stage,      \* [Envelopes -> ...]: how far SendEnvelope is with it
  stamp,      \* [Envelopes -> Nat]: the timestamp a sender has taken
  route,      \* which of the three reads the client uses
  encodes,    \* whether it percent-encodes query parameters
  next_cursor, \* of the last page; <<>> is ""
  since,      \* what the client gives as since: the last timestamp it saw
  has_more,
  limit,      \* history: limit of the last page
  refused,    \* history: the cursor of the last page was not understood
  handed,     \* history: what the client has got since it began
  owed,       \* history: what lay ahead of the cursor at one of its pages
  repeated    \* history: an envelope came twice

send_vars == <<clock, stage, stamp>>
client_vars ==
  <<route, encodes, next_cursor, since, has_more, limit, refused, handed, owed, repeated>>
history_vars == <<device_vars, envelope_vars, send_vars, client_vars>>

HistoryInit ==
  /\ users = Users
  /\ devices = [d \in Devices |-> "active"]
  /\ encrypted_envelopes = {}
  /\ server_timestamp = [e \in Envelopes |-> 0]
  /\ delivery_state = {}
  /\ acked = {}
  /\ clock = 1
  /\ stage = [e \in Envelopes |-> "new"]
  /\ stamp = [e \in Envelopes |-> 0]
  /\ route \in {"pending", "history", "since"}
  /\ encodes \in BOOLEAN
  /\ next_cursor = <<>>
  /\ since = 0
  /\ has_more = TRUE
  /\ limit = 0
  /\ refused = FALSE
  /\ handed = {}
  /\ owed = {}
  /\ repeated = FALSE

----------------------------------------------------------------------------
(* SendEnvelope for a receiver that is offline, and what removes rows.      *)

Stamp(e) ==
  /\ stage[e] = "new"
  /\ ~ CheckDuplicate(e)
  /\ Cardinality({f \in Envelopes : stage[f] \in {"stamped", "stored"}}) < Senders
  /\ stage' = [stage EXCEPT ![e] = "stamped"]
  /\ stamp' = [stamp EXCEPT ![e] = clock]
  /\ UNCHANGED <<device_vars, envelope_vars, clock, client_vars>>

Store(e) ==
  /\ stage[e] = "stamped"
  /\ StoreAllowed(e)
  /\ StoreEnvelope(e, stamp[e])
  /\ stage' = [stage EXCEPT ![e] = "stored"]
  /\ UNCHANGED <<device_vars, clock, stamp, client_vars>>

Offline(e) ==
  /\ stage[e] = "stored"
  /\ AddDeliveryState(e, Reader)
  /\ stage' = [stage EXCEPT ![e] = "done"]
  /\ UNCHANGED <<device_vars, clock, stamp, client_vars>>

\* POST /v1/messages/ack, by this client or by another of its device.
Ack(e) ==
  /\ e \in handed
  /\ <<e, Reader>> \notin acked
  /\ MarkAcked(e, Reader)
  /\ UNCHANGED <<device_vars, send_vars, client_vars>>

Purge ==
  /\ Expired(clock) # {}
  /\ DeleteExpired(clock)
  /\ UNCHANGED <<device_vars, send_vars, client_vars>>

Tick ==
  /\ clock < MaxClock
  /\ clock' = clock + 1
  /\ UNCHANGED <<device_vars, envelope_vars, stage, stamp, client_vars>>

----------------------------------------------------------------------------
(* The pages.                                                              *)

Listed ==
  IF route = "pending" THEN GetPendingForDevice(Reader) ELSE encrypted_envelopes

Key(e) == <<server_timestamp[e], e>>

\* ORDER BY server_timestamp ASC, envelope_id ASC
Precedes(k, l) == k[1] < l[1] \/ (k[1] = l[1] /\ k[2] < l[2])

\* Mutant of Ahead: only the timestamp is compared.
AheadBySecond(e) == next_cursor = <<>> \/ server_timestamp[e] > next_cursor[1]

\* The condition that a cursor adds to the query.
Ahead(e) == next_cursor = <<>> \/ Precedes(next_cursor, Key(e))

\* LIMIT ?: the value is cast to int64_t, and a negative limit is none.
WithinLimit(count, n) == n >= SizeMod \div 2 \/ count < n

Rows(S, n) ==
  {e \in S : WithinLimit(Cardinality({f \in S : Precedes(Key(f), Key(e))}), n)}

Last(P) == CHOOSE e \in P : \A f \in P : ~ Precedes(Key(e), Key(f))

\* QueryParam takes the value as it stands in the target, so ParseEnvCursor
\* finds no '|' in a cursor that was percent-encoded.
ParseEnvCursor == next_cursor = <<>> \/ ~ encodes

\* What the client gets; a request without a cursor begins again.
Receive(P, ahead) ==
  /\ handed' = (IF next_cursor = <<>> THEN {} ELSE handed) \cup P
  /\ owed' = (IF next_cursor = <<>> THEN {} ELSE owed) \cup ahead
  /\ repeated' = (repeated \/ (next_cursor # <<>> /\ P \cap handed # {}))

\* GetPendingForDeviceCursored and ListForConversationCursored: one row more
\* than asked for tells whether there are more.
Page(n) ==
  LET ahead == {e \in Listed : Ahead(e)}
      rows == Rows(ahead, (n + 1) % SizeMod)
      more == Cardinality(rows) > n
      page == IF more THEN rows \ {Last(rows)} ELSE rows
  IN /\ has_more' = more
     /\ next_cursor' = IF page = {} THEN <<>> ELSE Key(Last(page))
     /\ Receive(page, ahead)

GetPage(n) ==
  /\ route # "since"
  /\ limit' = n
  /\ refused' = ~ ParseEnvCursor
  /\ IF ParseEnvCursor
       THEN Page(n)
       ELSE has_more' = FALSE /\ next_cursor' = <<>> /\ UNCHANGED <<handed, owed, repeated>>
  /\ UNCHANGED <<device_vars, envelope_vars, send_vars, route, encodes, since>>

\* ORDER BY server_timestamp ASC LIMIT ?: rows of one second in any order.
IsSincePage(P, S, n) ==
  /\ P \subseteq S
  /\ \A e \in P, f \in S : server_timestamp[f] < server_timestamp[e] => f \in P
  /\ IF n >= SizeMod \div 2
       THEN P = S
       ELSE Cardinality(P) <= n /\ (P = S \/ Cardinality(P) = n)

\* ListForConversation.  The answer has no cursor; the client goes on from the
\* last timestamp it has seen.
GetSince(n) ==
  LET ahead == {e \in Listed : server_timestamp[e] > since}
  IN /\ route = "since"
     /\ limit' = n
     /\ \E P \in SUBSET ahead :
          /\ IsSincePage(P, ahead, n)
          /\ handed' = handed \cup P
          /\ owed' = owed \cup ahead
          /\ repeated' = (repeated \/ P \cap handed # {})
          /\ since' = IF P = {} THEN since ELSE server_timestamp[Last(P)]
     /\ has_more' = FALSE
     /\ UNCHANGED <<device_vars, envelope_vars, send_vars, route, encodes,
                    next_cursor, refused>>

HistoryNext ==
  \/ \E e \in Envelopes : Stamp(e) \/ Store(e) \/ Offline(e) \/ Ack(e)
  \/ Purge
  \/ Tick
  \/ \E n \in PageLimits : GetPage(n) \/ GetSince(n)

HistorySpec == HistoryInit /\ [][HistoryNext]_history_vars

----------------------------------------------------------------------------
\* Types of the tables and of what the client remembers.
HistoryTypeOK ==
  /\ DeviceTypeOK
  /\ EnvelopeTypeOK
  /\ {clock, since} \subseteq 0..MaxClock
  /\ stamp \in [Envelopes -> 0..MaxClock]
  /\ handed \cup owed \subseteq Envelopes
  /\ {encodes, has_more, refused, repeated} \subseteq BOOLEAN

\* A client that follows next_cursor until has_more is false gets every row
\* that lay ahead of it at one of its pages and is still listed, and none of them
\* twice, although rows share a timestamp, are stored late and are acknowledged
\* between two pages.  The two exceptions are the code's: limit + 1 wraps for the
\* largest limit, and a percent-encoded cursor is answered by an empty last page.
\* With since the rows of a second at which a page was cut are missed, and no
\* others.
PagesComplete ==
  /\ ~ repeated
  /\ \A e \in owed \cap Listed :
       \/ e \in handed
       \/ IF route = "since"
            THEN \/ server_timestamp[e] > since
                 \/ \E f \in handed : server_timestamp[f] = server_timestamp[e]
            ELSE (has_more /\ Ahead(e)) \/ limit = SizeMod - 1 \/ refused
=============================================================================
