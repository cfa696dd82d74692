-------------------------------- MODULE Wire --------------------------------
(***************************************************************************)
(* What a call puts on the bridge and what its handler takes off it.       *)
(*                                                                         *)
(* A command is a header (command, handle of the receiver) and the items   *)
(* its sender pushed into the data ring: a 32-bit value, a block (its      *)
(* length and then its bytes; a null pointer is a length of 0), the handle *)
(* of an object, the handle of an object made by this call.  The values    *)
(* themselves are abstracted away; what is kept is what the other side     *)
(* has to agree with: which items, in which order, and whether somebody    *)
(* waits for an answer and what is in it.                                  *)
(*                                                                         *)
(* Each side is described on its own, the client's methods in modules      *)
(* ClientDevice, ClientObjects and ClientModule and the server's handlers  *)
(* in ServerDevice, ServerObjects and ServerModule; module Calls runs one  *)
(* against the other.                                                      *)
(***************************************************************************)
EXTENDS Naturals, Sequences

Item(kind, table, types) == [kind |-> kind, table |-> table, of |-> types]

\* Command::send_data(value) and Bridge::get_data()
W == Item("word", "none", {})
Ws(n) == [i \in 1..n |-> W]

\* Command::send_data(size, pointer) and Bridge::get_data(void**); the second
\* form is a pointer the caller may leave null
B == Item("block", "none", {})
BOrNull == Item("blockOrNull", "none", {})

\* The client's side of a handle: of a live object, of one or none, of the
\* object this call makes (the Remix API: or destroys)
Obj(types) == Item("object", "none", types)
ObjOrNull(types) == Item("objectOrNull", "none", types)
New == Item("new", "none", {})

\* The server's side: a handle it looks up in a table and casts, and a handle
\* under which it enters what the call gave it (New)
In(table, types) == Item("lookup", table, types)

\* A linked list of Remix API extensions: while there is one, Bool::True, its
\* type and its serialised structure, then Bool::False
Chain == Item("chain", "none", {})

-----------------------------------------------------------------------------
(* Object types and the server's tables *)

Textures == {"Texture", "CubeTexture", "VolumeTexture"}
Buffers == {"VertexBuffer", "IndexBuffer"}
Resources == Textures \cup Buffers \cup {"Surface"}
RemixTypes == {"Material", "Mesh", "Light"}
-----------------------------------------------------------------------------
(* The client's methods: the types of the receiver, the items sent, when   *)
(* the method waits for an answer, what it takes out of one after the      *)
(* result (when the result is a success, when it is a failure), the type   *)
(* of the object it makes, whether that is a child of the receiver,        *)
(* whether the command is sent only with sendReadOnlyCalls, whether the    *)
(* surface data taken is unlocked into a surface with a second command,    *)
(* whether the client's object ends with the call, whether the command     *)
(* itself is left out, and the command's name where several methods send   *)
(* the same one                                                            *)

Sends(types, items) ==
  [on |-> types, sends |-> items, waits |-> "never", ok |-> <<>>, fail |-> <<>>,
   makes |-> "none", child |-> FALSE, readOnly |-> FALSE, copies |-> FALSE,
   ends |-> FALSE, silent |-> FALSE, command |-> "none"]

\* WAIT_FOR_OPTIONAL_SERVER_RESPONSE
Optional(types, items) == [Sends(types, items) EXCEPT !.waits = "all"]

\* WAIT_FOR_OPTIONAL_CREATE_FUNCTION_SERVER_RESPONSE
Creates(items, type) ==
  [Sends({"Device"}, items) EXCEPT !.waits = "create", !.makes = type]

\* WAIT_FOR_SERVER_RESPONSE
Asks(types, items, payload) ==
  [Sends(types, items) EXCEPT !.waits = "always", !.ok = payload]

\* ~D3DBase after onDestroy
Destroys(types, items) == [Sends(types, items) EXCEPT !.ends = TRUE]

\* A child object made by the client, linked to the server's by this command
LinksChild(types, items, type) ==
  [Sends(types, items) EXCEPT !.makes = type, !.child = TRUE]

\* if (GlobalOptions::getSendReadOnlyCalls())
ReadOnly(types, items) == [Sends(types, items) EXCEPT !.readOnly = TRUE]

\* copyServerSurfaceRawData
CopiesSurface(types, items) ==
  [Asks(types, items, <<W, W, W, B>>) EXCEPT !.copies = TRUE]

-----------------------------------------------------------------------------
(* The server's handlers: the table and the type of the receiver, the      *)
(* items pulled, when and with what it answers, the table and the type     *)
(* entered under a New handle when the call succeeds, whether the entry of *)
(* the receiver or of the looked up handle is erased, and whether a        *)
(* receiver that is not in the table is passed over (otherwise the call    *)
(* goes through a null pointer); table "none" is a handle not looked up    *)

Pulls(table, types, items) ==
  [table |-> table, cast |-> types, reads |-> items, answers |-> "never",
   ok |-> <<>>, fail |-> <<>>, enters |-> "none", as |-> "none",
   erases |-> FALSE, drops |-> FALSE, skips |-> FALSE]

\* SEND_OPTIONAL_SERVER_RESPONSE
Acks(table, types, items) == [Pulls(table, types, items) EXCEPT !.answers = "all"]

\* A ServerMessage in every case
Replies(table, types, items, payload) ==
  [Pulls(table, types, items) EXCEPT !.answers = "always", !.ok = payload]

Enters(handler, table, type) ==
  [handler EXCEPT !.enters = table, !.as = type]

\* safeDestroy (which passes over a null pointer) and erase
Erases(table, types) ==
  [Pulls(table, types, <<>>) EXCEPT !.erases = TRUE, !.skips = TRUE]

Skips(handler) == [handler EXCEPT !.skips = TRUE]

=============================================================================
