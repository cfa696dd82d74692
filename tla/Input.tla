--------------------------------- MODULE Input ---------------------------------
(***************************************************************************)
(* What the client does with the messages of the game's window once        *)
(* RemixWndProc is in front of it: RemixWndProc and the message pump hooks *)
(* give each to remixMsg (client/window.cpp), which hands it to the        *)
(* channels and the renderer and decides whether the game may see it.      *)
(* Composes the DirectInput hooks and the message channels.                *)
(***************************************************************************)
EXTENDS DirectInput, MessageChannel, SequencesExt

CONSTANTS
  Keys,     \* keys of the keyboard
  MaxQueue  \* messages waiting for the window, at most

(* The keys remixMsg unsticks, and the ALT key, which is none of them.      *)
Modifiers == {"VK_CONTROL", "VK_SHIFT", "VK_INSERT"}
VK_MENU == "VK_MENU"

VARIABLES
  hookMessagePump,  \* the option client.hookMessagePump
  posts,            \* messages posted to the window, oldest first
  pulled,           \* a message the game took from the queue and has not dispatched
  down,             \* keys that are down
  gameKeys          \* keys that are down as far as the game's procedure was told

keyVars == <<hookMessagePump, posts, pulled, down, gameKeys>>

VARIABLES
  overrideCustomWinHooks,  \* the option client.overrideCustomWinHooks
  chain,                   \* external: windows hooks of the game ("app") and the bridge, first called first
  late,                    \* history: the game set its hook after the bridge last did
  gClientUsesDirectInput,
  cursor,                  \* external: where the cursor is
  lastKnown,               \* lastKnownPos, and lastKnownMouseState and lastKnownKeyboardState as one
  told,                    \* what the game was last told of either, if it ever asked
  opened                   \* history: that when the UI opened

hookVars == <<overrideCustomWinHooks, chain, late, gClientUsesDirectInput, cursor, lastKnown, told, opened>>

NoMessage == <<"none">>

(* The static positions and states are zero at first.                       *)
Nothing == [pos |-> "zero", raw |-> "zero"]
Unasked == [pos |-> "unasked", raw |-> "unasked"]
Positions == {"here", "there"}
RawStates == {"pressed", "released"}

(* InputWinHooksAttach: each hook in front of those there are, if it can be *)
(* set at all; InputWinHooksDetach.                                         *)
InputWinHooksAttach(c) == IF overrideCustomWinHooks THEN {<<"bridge">> \o c, c} ELSE {c}

InputWinHooksDetach(c) == RemoveFirst(c, "bridge")

(* Variant with a bug: the hooks are set once and for all. *)
NeverReattached(c) == {c}

InputWinHooksReattach(c) == InputWinHooksAttach(InputWinHooksDetach(c))

InitInput ==
  /\ InitDirectInput /\ InitChannels
  /\ hookMessagePump \in BOOLEAN
  /\ posts = <<>> /\ pulled = NoMessage /\ down = {} /\ gameKeys = {}
  /\ overrideCustomWinHooks \in BOOLEAN /\ chain \in InputWinHooksAttach(<<>>) /\ late = FALSE
  /\ gClientUsesDirectInput = FALSE
  /\ cursor = "here" /\ lastKnown = Nothing /\ told = Unasked /\ opened = Unasked

--------------------------------------------------------------------------------
(* isInputMessage, for the kinds of message told apart here.                *)
isInputMessage(m) == m[1] \in {"keydown", "keyup", "syskeyup", "input"}

(* remixMsg.  The renderer's own message is swallowed; when it opens the UI *)
(* the game is told that the modifiers are up, and the bridge's windows     *)
(* hooks go in front of the game's.  Everything else goes to the            *)
(* server's channel and on to the renderer, and input stops here while the  *)
(* UI is active, but for the ALT key's release; so do the messages that     *)
(* move or size the window by its frame.                                    *)
UIMessage(m) == m[1] = "ui"

(* unstick, at the renderer's message only.                                 *)
Unsticks(m) == IF UIMessage(m) /\ m[2] /\ ~m_state THEN Modifiers ELSE {}

Swallows(m) ==
  \/ UIMessage(m)
  \/ m_state /\ m[1] = "frame"
  \/ m_state /\ isInputMessage(m) /\ m # <<"keyup", VK_MENU>>

remixMsg(m) ==
  \/ /\ UIMessage(m)
     /\ OnUIActive(m[2])
     /\ IF m[2] /\ ~m_state
        THEN /\ chain' \in InputWinHooksReattach(chain)
             /\ late' = (late /\ ~Contains(chain', "bridge"))
             /\ opened' = told
        ELSE UNCHANGED <<chain, late, opened>>
     /\ UNCHANGED <<channelVars, overrideCustomWinHooks, gClientUsesDirectInput, cursor, lastKnown, told>>
  \/ /\ m[1] \in {"killfocus", "setfocus"}
     /\ m_serverThreadId["server"] /\ Len(inbox["server"]) < MaxInbox
     /\ OnFocus(m[1])
     /\ UNCHANGED <<worker, m_serverThreadId, m_handlers, m_handshakeMsgId, inputVars, hookVars>>
  \/ /\ ~UIMessage(m) /\ m[1] \notin {"killfocus", "setfocus"}
     /\ UNCHANGED <<inputVars, channelVars, hookVars>>

(* The game's procedure with what remixMsg leaves it: the releases of       *)
(* unstick and the message itself.                                          *)
GameHears(m) ==
  LET left == gameKeys \ Unsticks(m) IN
  IF Swallows(m) THEN left
  ELSE CASE m[1] = "keydown" -> left \cup {m[2]}
         [] m[1] \in {"keyup", "syskeyup"} -> left \ {m[2]}
         [] OTHER -> left

(* The hooked pump functions: what remixMsg swallows there the game never   *)
(* gets, the rest it dispatches later.                                      *)
PumpTakes ==
  /\ hookMessagePump /\ posts # <<>> /\ pulled = NoMessage
  /\ remixMsg(Head(posts))
  /\ pulled' = IF Swallows(Head(posts)) THEN NoMessage ELSE Head(posts)
  /\ gameKeys' = gameKeys \ Unsticks(Head(posts))
  /\ posts' = Tail(posts)
  /\ UNCHANGED <<down, hookMessagePump>>

(* RemixWndProc, for a message that passed the pump or came by itself.      *)
RemixWndProc ==
  LET m == IF hookMessagePump THEN pulled ELSE Head(posts) IN
  /\ IF hookMessagePump THEN pulled # NoMessage ELSE posts # <<>>
  /\ remixMsg(m)
  /\ gameKeys' = GameHears(m)
  /\ pulled' = NoMessage
  /\ posts' = IF hookMessagePump THEN posts ELSE Tail(posts)
  /\ UNCHANGED <<down, hookMessagePump>>

--------------------------------------------------------------------------------
(* The user, the system and the renderer post messages to the window.       *)
PostToWindow(m) == /\ Len(posts) < MaxQueue
                   /\ posts' = Append(posts, m)
                   /\ UNCHANGED <<inputVars, channelVars, hookVars, pulled, gameKeys, hookMessagePump>>

Press(k) == /\ k \notin down /\ down' = down \cup {k} /\ PostToWindow(<<"keydown", k>>)

ReleaseKey(k, up) == /\ k \in down /\ down' = down \ {k} /\ PostToWindow(<<up, k>>)

RendererPosts(active) == /\ PostToWindow(<<"ui", active>>) /\ UNCHANGED down

SystemPosts(m) == /\ PostToWindow(<<m>>) /\ UNCHANGED down

(* Each message the window can get, apart from the keyboard's own.          *)
FrameMessages == {"frame", "input"}
FocusMessages == {"killfocus", "setfocus"}

Listens == PumpTakes \/ RemixWndProc

KeyboardNext ==
  \/ Listens
  \/ \E k \in Keys : Press(k) \/ ReleaseKey(k, "keyup")
  \/ ReleaseKey(VK_MENU, "syskeyup")
  \/ \E active \in BOOLEAN : RendererPosts(active)
  \/ \E m \in FrameMessages : SystemPosts(m)

(* The threads of the channels.                                             *)
ChannelStep ==
  /\ \/ InitServerMessageChannel \/ WorkerListens
     \/ \E p \in {"client", "server"} : RegisterHandler(p)
     \/ SendHandshake \/ HandshakeTimesOut \/ OnHandshake
     \/ \E c \in Channels : InitWorker(c) \/ WorkerTakes(c) \/ CloseChannel(c)
  /\ UNCHANGED <<inputVars, keyVars, hookVars>>

ChannelNext ==
  \/ ChannelStep \/ Listens
  \/ \E m \in FocusMessages : SystemPosts(m)

(* The game's use of DirectInput, with resets that set the window procedure *)
(* again and the renderer's message at any time.                            *)
DevicesNext ==
  /\ \/ DeviceNext \/ DInputSetDefaultWindow
     \/ s_hwnd /\ \E active \in BOOLEAN : OnUIActive(active)
  /\ UNCHANGED <<channelVars, keyVars, hookVars>>

(* HookedCallWndProc, HookedGetMsgProc, HookedKeyboardProc and              *)
(* HookedLowLevelKeyboardProc end the chain while the UI is active: the     *)
(* hook of the game hears what happens only in front of them.               *)
AppHears ==
  \E i \in DOMAIN chain :
    chain[i] = "app" /\ ~(m_state /\ \E j \in 1..(i - 1) : chain[j] = "bridge")

AppHooks ==
  /\ chain' = IF Contains(chain, "app") THEN RemoveFirst(chain, "app") ELSE <<"app">> \o chain
  /\ late' = ~Contains(chain, "app")
  /\ UNCHANGED <<overrideCustomWinHooks, gClientUsesDirectInput, cursor, lastKnown, told, opened>>

MoveCursor(p) ==
  /\ cursor' = p
  /\ UNCHANGED <<overrideCustomWinHooks, chain, late, gClientUsesDirectInput, lastKnown, told, opened>>

HookedGetCursorPos ==
  /\ lastKnown' = [lastKnown EXCEPT !.pos = IF m_state THEN @ ELSE cursor]
  /\ told' = [told EXCEPT !.pos = lastKnown'.pos]
  /\ UNCHANGED <<overrideCustomWinHooks, chain, late, gClientUsesDirectInput, cursor, opened>>

HookedSetCursorPos(p) ==
  /\ cursor' = IF m_state THEN cursor ELSE p
  /\ UNCHANGED <<overrideCustomWinHooks, chain, late, gClientUsesDirectInput, lastKnown, told, opened>>

(* HookedGetRawInputData, for a message with state r of a key or a button.  *)
HookedGetRawInputData(r) ==
  /\ lastKnown' = [lastKnown EXCEPT !.raw = IF m_state \/ gClientUsesDirectInput THEN @ ELSE r]
  /\ told' = [told EXCEPT !.raw = IF m_state /\ ~gClientUsesDirectInput THEN lastKnown.raw ELSE r]
  /\ UNCHANGED <<overrideCustomWinHooks, chain, late, gClientUsesDirectInput, cursor, opened>>

(* HookedDirectInput8Create and the like.                                   *)
HookedDirectInputCreate ==
  /\ gClientUsesDirectInput' = TRUE
  /\ UNCHANGED <<overrideCustomWinHooks, chain, late, cursor, lastKnown, told, opened>>

Polls ==
  /\ \/ AppHooks \/ HookedGetCursorPos \/ HookedDirectInputCreate
     \/ \E p \in Positions : MoveCursor(p) \/ HookedSetCursorPos(p)
     \/ \E r \in RawStates : HookedGetRawInputData(r)
  /\ UNCHANGED <<inputVars, channelVars, keyVars>>

PollingNext == Polls \/ Listens \/ \E active \in BOOLEAN : RendererPosts(active)

allInputVars == <<inputVars, channelVars, keyVars, hookVars>>

DevicesSpec == InitInput /\ [][DevicesNext]_allInputVars
ChannelSpec == InitInput /\ [][ChannelNext]_allInputVars
KeyboardSpec == InitInput /\ [][KeyboardNext \/ PollingNext]_allInputVars

(* The hooks of GetAsyncKeyState, GetKeyState and GetKeyboardState: what    *)
(* the game finds when it looks at the keyboard itself.                     *)
PolledKeys == IF m_state THEN {} ELSE down

--------------------------------------------------------------------------------
(* Part of InputWithheld: none of the keys that are unstuck is stuck.       *)
(* While the UI is active the game has none of them down, neither by the    *)
(* messages it got before the UI opened nor by looking; and one it takes    *)
(* for down at any other time is down, or its release is on its way,        *)
(* although the UI has swallowed presses and releases in between.  Any      *)
(* other key the game had down when the UI opened stays so for it.          *)
NoKeyStuck ==
  \A k \in Modifiers \cap (gameKeys \cup PolledKeys) :
    /\ ~m_state
    /\ \/ k \in down
       \/ pulled = <<"keyup", k>>
       \/ \E i \in DOMAIN posts : posts[i] = <<"keyup", k>>

(* Part of InputWithheld: what the game is told now is what it was told     *)
(* before the UI opened, or the zero of the static variable if it had never *)
(* asked by then.                                                           *)
NothingNew(now, before) == now = before \/ (before = "unasked" /\ now = "zero")

(* While the UI is active three ways to the game's input are shut, whatever *)
(* the user does.  It has none of CONTROL, SHIFT and INSERT down, nor is    *)
(* one of them stuck afterwards.  Its windows hooks hear nothing, if the    *)
(* bridge's could be set when the UI opened (they are only where the option *)
(* overrideCustomWinHooks is on) and the game set none since.  The cursor   *)
(* and raw input tell it nothing new; raw input only of a game that does    *)
(* not use DirectInput.  Not claimed: hooks the game sets under the active  *)
(* UI, which hear, and ALT, whose release is to pass but is swallowed when  *)
(* it comes as WM_SYSKEYUP.                                                 *)
InputWithheld ==
  /\ NoKeyStuck
  /\ m_state /\ Contains(chain, "bridge") /\ ~late => ~AppHears
  /\ m_state => /\ NothingNew(told.pos, opened.pos)
                /\ NothingNew(told.raw, opened.raw) \/ gClientUsesDirectInput
================================================================================
