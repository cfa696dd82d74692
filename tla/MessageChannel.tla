---------------------------- MODULE MessageChannel -----------------------------
(***************************************************************************)
(* Short messages between the game's window and a worker thread of another *)
(* process (util/util_messagechannel.cpp).  There are two channels: one    *)
(* with the bridge's server, whose worker the client learns of in the Ack  *)
(* of the handshake (client/message_channels.h), and one with the          *)
(* renderer, whose worker introduces itself with a message to the window.  *)
(* Focus changes go over the first: both processes then disable or         *)
(* re-enable their timeouts.                                               *)
(***************************************************************************)
EXTENDS Naturals, Sequences, FiniteSets, Functions

CONSTANT MaxInbox   \* thread messages a worker has not looked at, at most

Channels == {"server", "remix"}

VARIABLES
  worker,           \* per channel: "none", "started", "handshaking", "listening" or "ended"
  m_serverThreadId, \* per channel: the client's end knows the worker
  inbox,            \* per channel: messages posted to the worker's thread
  m_handlers,       \* per process: the messages the server's channel has a handler for
  m_handshakeMsgId, \* the handshake message could be registered with the system
  infiniteRetries,  \* the option in either process
  missed            \* history: a focus message was posted before the server's worker listened

channelVars == <<worker, m_serverThreadId, inbox, m_handlers, m_handshakeMsgId, infiniteRetries, missed>>

Focus == <<"killfocus", "setfocus">>   \* in the order their handlers are registered

(* The system gives a message's name its number, or none.                   *)
getMessageId == BOOLEAN

InitChannels ==
  /\ worker = [c \in Channels |-> "none"]
  /\ m_serverThreadId = [c \in Channels |-> FALSE]
  /\ inbox = [c \in Channels |-> <<>>]
  /\ m_handlers = [p \in {"client", "server"} |-> {}]
  /\ m_handshakeMsgId \in getMessageId
  /\ infiniteRetries = [p \in {"client", "server"} |-> FALSE]
  /\ missed = FALSE

(* MessageChannelServer::init starts the worker; the server's own channel   *)
(* has no window to introduce itself to.  Without the handshake message     *)
(* there is no channel with a window.                                       *)
InitWorker(c) ==
  /\ worker[c] = "none"
  /\ c = "server" \/ m_handshakeMsgId
  /\ worker' = [worker EXCEPT ![c] = "started"]
  /\ UNCHANGED <<m_serverThreadId, inbox, m_handlers, m_handshakeMsgId, infiniteRetries, missed>>

(* registerHandler, by RegisterMessageChannel when the server's worker runs *)
(* already, and by initServerMessageChannel when the window's thread may    *)
(* already use the channel: one message after the other.                    *)
RegisterHandler(p) ==
  /\ IF p = "server" THEN worker["server"] # "none" ELSE m_serverThreadId["server"]
  /\ Cardinality(m_handlers[p]) < Len(Focus)
  /\ m_handlers' = [m_handlers EXCEPT ![p] = @ \cup {Focus[Cardinality(@) + 1]}]
  /\ UNCHANGED <<worker, m_serverThreadId, inbox, m_handshakeMsgId, infiniteRetries, missed>>

(* initServerMessageChannel: the id of the worker came with the Ack, which  *)
(* the server sends after RegisterMessageChannel.                           *)
InitServerMessageChannel ==
  /\ m_handlers["server"] = Range(Focus) /\ ~m_serverThreadId["server"]
  /\ m_serverThreadId' = [m_serverThreadId EXCEPT !["server"] = TRUE]
  /\ UNCHANGED <<worker, inbox, m_handlers, m_handshakeMsgId, infiniteRetries, missed>>

(* workerJob without a window: handshake() has nothing to send, and the     *)
(* first GetMessage makes the thread one that messages can be posted to.    *)
WorkerListens ==
  /\ worker["server"] = "started"
  /\ worker' = [worker EXCEPT !["server"] = "listening"]
  /\ UNCHANGED <<m_serverThreadId, inbox, m_handlers, m_handshakeMsgId, infiniteRetries, missed>>

(* handshake(): SendMessageTimeout to the window, once.                     *)
SendHandshake ==
  /\ worker["remix"] = "started"
  /\ worker' = [worker EXCEPT !["remix"] = "handshaking"]
  /\ UNCHANGED <<m_serverThreadId, inbox, m_handlers, m_handshakeMsgId, infiniteRetries, missed>>

(* After kHandshakeTimeoutMs the worker ends and nothing starts it again.   *)
HandshakeTimesOut ==
  /\ worker["remix"] = "handshaking"
  /\ worker' = [worker EXCEPT !["remix"] = "ended"]
  /\ UNCHANGED <<m_serverThreadId, inbox, m_handlers, m_handshakeMsgId, infiniteRetries, missed>>

(* The client's handler of the handshake message, whether the worker still  *)
(* waits for it or has given up.                                            *)
OnHandshake ==
  /\ worker["remix"] \in {"handshaking", "ended"} /\ ~m_serverThreadId["remix"]
  /\ m_serverThreadId' = [m_serverThreadId EXCEPT !["remix"] = TRUE]
  /\ worker' = [worker EXCEPT !["remix"] = IF @ = "handshaking" THEN "listening" ELSE @]
  /\ UNCHANGED <<inbox, m_handlers, m_handshakeMsgId, infiniteRetries, missed>>

(* MessageChannelClient::send: PostThreadMessage fails for a thread that is *)
(* not known, has no queue yet or has ended; no caller looks at the result. *)
CanPost(c) == m_serverThreadId[c] /\ worker[c] = "listening"

Posted(c, m) == IF CanPost(c) THEN [inbox EXCEPT ![c] = Append(@, m)] ELSE inbox

(* onMessage: the handler that is registered for the message, if one is.    *)
OnMessage(p, m) == m \in m_handlers[p]

(* Variant with a bug: the client sets its own option the other way round. *)
FocusInverted(m) ==
  IF OnMessage("client", m)
  THEN /\ infiniteRetries' = [infiniteRetries EXCEPT !["client"] = (m # "killfocus")]
       /\ inbox' = Posted("server", m)
       /\ missed' = (missed \/ worker["server"] # "listening")
  ELSE UNCHANGED <<infiniteRetries, inbox, missed>>

(* The handlers of WM_KILLFOCUS and WM_SETFOCUS on the client: its own      *)
(* option first, then the server is told.                                   *)
OnFocus(m) ==
  IF OnMessage("client", m)
  THEN /\ infiniteRetries' = [infiniteRetries EXCEPT !["client"] = (m = "killfocus")]
       /\ inbox' = Posted("server", m)
       /\ missed' = (missed \/ worker["server"] # "listening")
  ELSE UNCHANGED <<infiniteRetries, inbox, missed>>

(* workerJob: the server's worker runs the handler registered for the       *)
(* message, the renderer's hands it to the window handler of its interface. *)
WorkerTakes(c) ==
  /\ worker[c] = "listening" /\ inbox[c] # <<>>
  /\ inbox' = [inbox EXCEPT ![c] = Tail(@)]
  /\ infiniteRetries' = IF c = "server" /\ OnMessage("server", Head(inbox[c]))
                        THEN [infiniteRetries EXCEPT !["server"] = (Head(inbox[c]) = "killfocus")]
                        ELSE infiniteRetries
  /\ UNCHANGED <<worker, m_serverThreadId, m_handlers, m_handshakeMsgId, missed>>

(* ~MessageChannelServer posts WM_QUIT and joins the worker, which ends at  *)
(* GetMessage when what was posted before is handled.                       *)
CloseChannel(c) ==
  /\ worker[c] = "listening" /\ inbox[c] = <<>>
  /\ worker' = [worker EXCEPT ![c] = "ended"]
  /\ UNCHANGED <<m_serverThreadId, inbox, m_handlers, m_handshakeMsgId, infiniteRetries, missed>>

(* What the server will have when its worker has caught up: the last focus  *)
(* message under way, or its option as it stands.                           *)
ServerWillHave ==
  LET q == inbox["server"]
      focus == { i \in DOMAIN q : q[i] \in {"killfocus", "setfocus"} }
  IN IF focus = {} THEN infiniteRetries["server"]
     ELSE q[CHOOSE i \in focus : \A j \in focus : j <= i] = "killfocus"

(* A process that waits with timeouts while the other waits without ends    *)
(* the session when the game is merely out of focus: once the server's      *)
(* worker listens, server and client have, or are about to have, the same   *)
(* retry option, whatever focus changes race the messages.                  *)
FocusAgrees == ~missed /\ worker["server"] # "ended" => ServerWillHave = infiniteRetries["client"]
===============================================================================
