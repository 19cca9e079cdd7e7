-------------------------------- MODULE Inbox --------------------------------
(***************************************************************************)
(* A CLI daemon's inbound half: pushes that arrive on its member-WS and on *)
(* its sessions' WSs are decrypted, stored once in inbox.db, acked, and    *)
(* published on the event bus, from where each session's MCP server shows  *)
(* them to its session.                                                    *)
(*                                                                         *)
(* The decryption is awaited; from the lookup on, a push is handled in one *)
(* step of the event loop.                                                 *)
(***************************************************************************)
EXTENDS Naturals, FiniteSets

CONSTANTS
  Row, Cid, Peer, Letter, None,
  Session,   \* the recipients that are session-WSs; another is the member-WS
  Garbled,   \* client_message_ids whose payload no key of the daemon opens
  Deletable  \* messages whose inbox row may be deleted, flushed or pruned, once (bound)

VARIABLES
  conn, wire, acks, \* of Queue
  reading, \* pushes whose decryption is awaited
  inbox,   \* inbox rows by their UNIQUE client_message_id
  handled, \* messages stored or dropped for good
  shown,   \* how often each session was shown each message
  deleted  \* messages whose inbox row was removed

inboxVars == <<reading, inbox, handled, shown, deleted>>

Key == Cid \cup Row
Scope == [kind : {"absent", "session", "member"}, owner : Peer \cup {None}]
NoRow == [kind |-> "absent", owner |-> None]

InboxTypeOK ==
  /\ reading \subseteq [peer : Peer, row : Row, cid : Cid, keyed : BOOLEAN]
  /\ inbox \in [Key -> Scope]
  /\ handled \subseteq Cid
  /\ shown \in [Session -> [Cid -> Nat]]
  /\ deleted \subseteq Cid

InboxInit ==
  /\ reading = {}
  /\ inbox = [k \in Key |-> NoRow]
  /\ handled = {}
  /\ shown = [s \in Session |-> [c \in Cid |-> 0]]
  /\ deleted = {}

-----------------------------------------------------------------------------
\* Mutant: the broker's message id is the key, also where the sender gave one.
KeyByRow(u) == u.row
\* The dedupe key: the sender's client_message_id, or the broker's id without.
KeyOf(u) == IF u.keyed THEN u.cid ELSE u.row

KindOf(u) == IF u.peer \in Session THEN "session" ELSE "member"

\* A topic post that cannot be opened is stored with a placeholder.
Dropped(u) == u.cid \in Garbled /\ Letter[u.cid].kind # "topic"

\* sendClientAck, which drops the ack unless the connection is open.
AckSent(u) ==
  IF conn[u.peer] = "online"
  THEN acks \cup {[peer |-> u.peer, key |-> KeyOf(u), row |-> u.row]} ELSE acks

\* The sessions whose subscription lets the event of scope x through.
Audience(x) == IF x.kind = "session" THEN {x.owner} ELSE Session

Published(c, S) ==
  [s \in Session |-> IF s \in S THEN [shown[s] EXCEPT ![c] = @ + 1] ELSE shown[s]]

-----------------------------------------------------------------------------
Receives(u) ==
  /\ u \in wire
  /\ wire' = wire \ {u}
  /\ reading' = reading \cup {u}
  /\ UNCHANGED <<acks, inbox, handled, shown, deleted>>

\* No key opens it: acked, and never shown.
Drops(u) ==
  /\ Dropped(u)
  /\ UNCHANGED <<inbox, shown>>

Scoped(u) == [kind |-> KindOf(u), owner |-> u.peer]

\* insertIfNew, and the event.
Inserts(u) ==
  /\ ~Dropped(u) /\ inbox[KeyOf(u)].kind = "absent"
  /\ inbox' = [inbox EXCEPT ![KeyOf(u)] = Scoped(u)]
  /\ shown' = Published(u.cid, Audience(Scoped(u)))

\* Mutant: the session that has seen the message is shown it again.
NoneExcluded(u) == Session
\* exclude_session_pubkey.
Others(u) == Session \ {inbox[KeyOf(u)].owner}

\* The member-wide copy of what one session has: the row is widened and the
\* other sessions are told.
Promotes(u) ==
  /\ ~Dropped(u) /\ inbox[KeyOf(u)].kind = "session" /\ KindOf(u) = "member"
  /\ inbox' = [inbox EXCEPT ![KeyOf(u)] = Scoped(u)]
  /\ shown' = Published(u.cid, Others(u))

\* A copy of what is there already, for a session.
Ignores(u) ==
  /\ ~Dropped(u) /\ inbox[KeyOf(u)].kind # "absent"
  /\ ~(inbox[KeyOf(u)].kind = "session" /\ KindOf(u) = "member")
  /\ UNCHANGED <<inbox, shown>>

\* handleBrokerPush after the decryption.
Handles(u) ==
  /\ u \in reading
  /\ reading' = reading \ {u}
  /\ acks' = AckSent(u)
  /\ handled' = handled \cup {u.cid}
  /\ Drops(u) \/ Inserts(u) \/ Promotes(u) \/ Ignores(u)
  /\ UNCHANGED <<wire, deleted>>

\* deleteInboxRow, flushInbox, pruneInboxBefore.
Deletes(c) ==
  /\ c \in Deletable \ deleted /\ inbox[c].kind # "absent"
  /\ inbox' = [inbox EXCEPT ![c] = NoRow]
  /\ deleted' = deleted \cup {c}
  /\ UNCHANGED <<wire, acks, reading, handled, shown>>

\* The daemon ends: what it was decrypting is lost.
Forgets == reading' = {} /\ UNCHANGED <<inbox, handled, shown, deleted>>

InboxNext == \/ \E u \in wire : Receives(u)
             \/ \E u \in reading : Handles(u)
             \/ \E c \in Cid : Deletes(c)
=============================================================================
