-------------------------------- MODULE Images --------------------------------
(***************************************************************************)
(* A surface's bytes on their way between the processes                    *)
(* (client/d3d9_surface.cpp, the server's UnlockRect and                   *)
(* ReturnSurfaceDataToClient, util/util_texture_and_volume.h).  The game   *)
(* locks a rectangle of client memory and writes it; unlocking sends its   *)
(* rows, or their place in the shared heap, and the server copies them     *)
(* into its own surface, whose rows may be longer.  Both processes compute *)
(* rows and offsets from the format, each with the size of its size_t.     *)
(* A surface the server draws is read back the same way.                   *)
(*                                                                         *)
(* A byte is the number of the write it comes from and its row and column  *)
(* in the image, so that one that is copied to the wrong place shows.      *)
(***************************************************************************)
EXTENDS Integers, Sequences, FiniteSets

CONSTANTS
  Shapes,     \* surfaces: [format, width, height, rects], a rect is <<left, top, right, bottom>>
  MaxWrites,  \* writes of the game and draws of the server
  MaxFlight,       \* commands under way to the server
  MaxBuffers  \* buffers of a surface in the shared heap

--------------------------------------------------------------------------------
Compressed == {"DXT1", "DXT2", "DXT3", "DXT4", "DXT5"}

getBlockSize(format) == IF format \in Compressed THEN 4 ELSE 1

(* Per pixel, or per block of a compressed format; the fourcc formats that  *)
(* are no formats of pixels have 0, any other name ends the process.        *)
getBytesFromFormat(format) ==
  CASE format \in {"DXT2", "DXT3", "DXT4", "DXT5", "A32B32G32R32F"} -> 16
    [] format \in {"DXT1", "A16B16G16R16", "Q16W16V16U16", "A16B16G16R16F", "G32R32F", "MULTI2_ARGB8"} -> 8
    [] format \in {"A8R8G8B8", "X8R8G8B8", "D32", "D24S8", "X8L8V8U8", "D24X4S4", "Q8W8V8U8", "V16U16",
                   "A2W10V10U10", "A2B10G10R10", "A8B8G8R8", "X8B8G8R8", "G16R16", "D24X8", "A2R10G10B10",
                   "G16R16F", "R32F", "D32F_LOCKABLE", "D24FS8", "D32_LOCKABLE", "DF24", "INTZ"} -> 4
    [] format \in {"R8G8B8", "YV12"} -> 3
    [] format \in {"R5G6B5", "X1R5G5B5", "A1R5G5B5", "A4R4G4B4", "A8L8", "V8U8", "L6V5U5", "D16",
                   "D16_LOCKABLE", "D15S1", "A8P8", "A8R3G3B2", "UYVY", "YUY2", "X4R4G4B4", "CxV8U8", "L16",
                   "R16F", "R8G8_B8G8", "G8R8_G8B8", "DF16", "P016"} -> 2
    [] format \in {"ATI1", "ATI2", "P8", "L8", "R3G3B2", "A4L4", "A8", "A1", "S8_LOCKABLE", "NV12"} -> 1
    [] format \in {"RESZ", "INST", "NVDB", "GET4", "GET1", "NULL", "A2M1", "A2M0", "ATOC", "RAWZ", "NV11",
                   "P010", "Y210", "Y216", "Y410", "AYUV", "OPAQUE_420", "AI44", "IA44", "R2VB", "COPM",
                   "SSAA", "AL16", "R16", "EXT1", "FXT1", "GXT1", "HXT1"} -> 0

(* sizeof(size_t): the client has 32 bits, the server 64.                   *)
MinSurfacePitch == [Client |-> 4, Server |-> 8]

(* Variant with a bug: an incomplete block at the edge does not count.      *)
calcStrideDown(numPixels, format) == numPixels \div getBlockSize(format)

calcStride(numPixels, format) == (numPixels + getBlockSize(format) - 1) \div getBlockSize(format)

Larger(a, b) == IF a > b THEN a ELSE b

calcRowSize(side, width, format) ==
  Larger(MinSurfacePitch[side], calcStride(width, format) * getBytesFromFormat(format))

calcTotalSizeOfRect(side, width, height, format) ==
  calcStride(height, format) * calcRowSize(side, width, format)

calcImageByteOffset(pitch, rect, format) ==
  calcStride(rect[2], format) * pitch + getBytesFromFormat(format) * calcStride(rect[1], format)

(* The game locks rectangles of the surface, the whole of it among them,    *)
(* that begin at a block, as Direct3D asks of a rectangle of blocks.        *)
ASSUME ShapesAssumption ==
  \A s \in Shapes :
    /\ s.width \in Nat \ {0} /\ s.height \in Nat \ {0}
    /\ getBytesFromFormat(s.format) \in Nat
    /\ <<0, 0, s.width, s.height>> \in s.rects
    /\ \A r \in s.rects :
         /\ r[1] \in Nat /\ r[2] \in Nat /\ r[3] \in Nat /\ r[4] \in Nat
         /\ r[1] < r[3] /\ r[3] <= s.width /\ r[2] < r[4] /\ r[4] <= s.height
         /\ r[1] % getBlockSize(s.format) = 0 /\ r[2] % getBlockSize(s.format) = 0

--------------------------------------------------------------------------------
VARIABLES
  surface,         \* m_desc, and the rectangles games lock of it
  useSharedHeap,   \* m_bUseSharedHeap
  captured,        \* m_isBackBuffer and the option enableBackbufferCapture
  m_bufferId,      \* the buffer in use, 0 before the first lock; the shadow is buffer 1
  buffers,         \* the bytes of each buffer
  m_lockInfoQueue, \* the locks: their rectangle, flags and buffer
  held,            \* what the game has locked: its rectangle and flags, or <<>>
  flight,          \* commands under way to the server
  asks,            \* the call the client waits for, or "none"
  reply,           \* the server's answer to it, or <<>>
  image,           \* the bytes of the server's surface
  meant,           \* ghost: of each byte, the write that should be seen, 0 when undefined
  writes,          \* writes and draws so far
  astray           \* a copy left the memory it was meant for

imageVars == <<surface, useSharedHeap, captured, m_bufferId, buffers, m_lockInfoQueue, held, flight, asks,
               reply, image, meant, writes, astray>>

constantsOfSurface == <<surface, useSharedHeap, captured>>

format == surface.format
Undefined == <<0, 0, 0>>

(* The rows and bytes of a row the image really has, as Direct3D defines    *)
(* them: a block at the edge is whole.                                      *)
BlocksOf(numPixels) ==
  LET b == getBlockSize(surface.format)
  IN IF numPixels % b = 0 THEN numPixels \div b ELSE numPixels \div b + 1
Rows == BlocksOf(surface.height)
RowBytes == BlocksOf(surface.width) * getBytesFromFormat(surface.format)
Cells == (0..(Rows - 1)) \X (0..(RowBytes - 1))
Whole == <<0, 0, surface.width, surface.height>>
Width(rect) == rect[3] - rect[1]
Height(rect) == rect[4] - rect[2]

CellsOf(rect) ==
  LET bytes == getBytesFromFormat(format)
  IN {c \in Cells : /\ c[1] \in BlocksOf(rect[2])..(BlocksOf(rect[4]) - 1)
                    /\ c[2] \in (BlocksOf(rect[1]) * bytes)..(BlocksOf(rect[3]) * bytes - 1)}

Inside(r, rect) == r[1] >= rect[1] /\ r[2] >= rect[2] /\ r[3] <= rect[3] /\ r[4] <= rect[4]

(* The client's rows, and the server's, which the renderer aligns to 4.     *)
Pitch == calcRowSize("Client", surface.width, format)
ServerPitch == 4 * ((RowBytes + 3) \div 4)

Blank(n) == [p \in 0..(n - 1) |-> Undefined]
SurfaceSize == calcTotalSizeOfRect("Client", surface.width, surface.height, format)

ByteAt(memory, p) == IF p \in DOMAIN memory THEN memory[p] ELSE Undefined

--------------------------------------------------------------------------------
(* FOR_EACH_RECT_ROW with memcpy: rows of `size` bytes of `from`, which lie *)
(* fromPitch apart, into memory whose rows lie toPitch apart; a later row   *)
(* wins.                                                                    *)
RowsCopied(to, start, toPitch, from, fromStart, fromPitch, rows, size) ==
  LET Row(p) == {y \in 0..(rows - 1) : p - start - y * toPitch \in 0..(size - 1)}
      Last(S) == CHOOSE y \in S : \A z \in S : z <= y
  IN [p \in DOMAIN to |->
        IF Row(p) = {} THEN to[p]
        ELSE ByteAt(from, fromStart + Last(Row(p)) * fromPitch + p - start - Last(Row(p)) * toPitch)]

LeavesMemory(memory, start, pitch, rows, size) ==
  \E y \in 0..(rows - 1) : size > 0 /\ ~ (start + y * pitch + size - 1 \in DOMAIN memory)

--------------------------------------------------------------------------------
(* Direct3DSurface9_LSS::lock.  Buffers given back are not used again here: *)
(* that they outlive the copies under way is the subject of Lockable.       *)
NeedsBuffer(flags) == m_bufferId = 0 \/ (useSharedHeap /\ flags = "DISCARD")

BufferFor(flags) == IF NeedsBuffer(flags) THEN Len(buffers) + 1 ELSE m_bufferId

LockInfo(rect, flags) == [rect |-> rect, flags |-> flags, bufId |-> BufferFor(flags)]

BuffersFor(flags) == IF NeedsBuffer(flags) THEN Append(buffers, Blank(SurfaceSize)) ELSE buffers

(* sendDataToServer: the rectangle's rows one after the other, or the       *)
(* buffer and its pitch.                                                    *)
UnlockCommand(lockInfo, memory) ==
  LET rowSize == calcRowSize("Client", Width(lockInfo.rect), format)
      total == calcTotalSizeOfRect("Client", Width(lockInfo.rect), Height(lockInfo.rect), format)
      start == calcImageByteOffset(Pitch, lockInfo.rect, format)
  IN [cmd |-> "UnlockRect", rect |-> lockInfo.rect, flags |-> lockInfo.flags, bufId |-> lockInfo.bufId,
      pitch |-> IF useSharedHeap THEN Pitch ELSE rowSize,
      blob |-> IF useSharedHeap THEN <<>>
               ELSE RowsCopied(Blank(total), 0, rowSize, memory[lockInfo.bufId], start, Pitch,
                               calcStride(Height(lockInfo.rect), format), rowSize),
      write |-> 0]

ImageCommand(name, write) ==
  [cmd |-> name, rect |-> Whole, flags |-> "0", bufId |-> 0, pitch |-> 0, blob |-> <<>>, write |-> write]

(* unlock: the oldest lock; nothing is sent of one that only reads.         *)
Unlocked(locks, memory) ==
  IF locks = <<>> \/ Head(locks).flags = "READONLY" THEN <<>> ELSE <<UnlockCommand(Head(locks), memory)>>

LockRect(rect, flags) ==
  /\ held = <<>> /\ asks = "none" /\ Len(flight) < MaxFlight
  /\ flags = "DISCARD" => rect = Whole
  /\ NeedsBuffer(flags) => Len(buffers) < MaxBuffers
  /\ held' = <<rect, flags>>
  /\ m_bufferId' = BufferFor(flags)
  /\ buffers' = BuffersFor(flags)
  /\ m_lockInfoQueue' = Append(m_lockInfoQueue, LockInfo(rect, flags))
  /\ meant' = IF flags = "DISCARD" THEN [c \in Cells |-> 0] ELSE meant
  /\ IF captured /\ flags # "DISCARD"
     THEN asks' = "LockRect" /\ flight' = Append(flight, ImageCommand("LockRect", 0))
     ELSE UNCHANGED <<asks, flight>>
  /\ UNCHANGED <<constantsOfSurface, reply, image, writes, astray>>

(* GetDC is a lock of the whole surface, ReleaseDC the unlock.              *)
GetDC == LockRect(Whole, "0")

(* The game writes part of what it holds, or all of it, from pBits and the  *)
(* Pitch it was given.                                                      *)
WriteLocked(rect) ==
  /\ held # <<>> /\ asks = "none" /\ writes < MaxWrites
  /\ held[2] # "READONLY" /\ Inside(rect, held[1])
  /\ LET bits == calcImageByteOffset(Pitch, held[1], format)
         Cell(x) == <<BlocksOf(held[1][2]) + x \div Pitch, BlocksOf(held[1][1]) * getBytesFromFormat(format) + (x % Pitch)>>
     IN buffers' = [buffers EXCEPT ![m_bufferId] =
          [p \in DOMAIN @ |-> IF p >= bits /\ Cell(p - bits) \in CellsOf(rect)
                             THEN <<writes + 1, Cell(p - bits)[1], Cell(p - bits)[2]>> ELSE @[p]]]
  /\ meant' = [c \in Cells |-> IF c \in CellsOf(rect) THEN writes + 1 ELSE meant[c]]
  /\ writes' = writes + 1
  /\ UNCHANGED <<constantsOfSurface, m_bufferId, m_lockInfoQueue, held, flight, asks, reply, image, astray>>

UnlockRect ==
  /\ asks = "none" /\ Len(flight) < MaxFlight
  /\ held' = <<>>
  /\ m_lockInfoQueue' = IF m_lockInfoQueue = <<>> THEN <<>> ELSE Tail(m_lockInfoQueue)
  /\ flight' = flight \o Unlocked(m_lockInfoQueue, buffers)
  /\ UNCHANGED <<constantsOfSurface, m_bufferId, buffers, asks, reply, image, meant, writes, astray>>

ReleaseDC == held = <<Whole, "0">> /\ UnlockRect

(* GetRenderTargetData and GetFrontBufferData into this surface: the server *)
(* copies another picture into its own and sends it back.                   *)
GetRenderTargetData ==
  /\ held = <<>> /\ asks = "none" /\ writes < MaxWrites /\ Len(flight) < MaxFlight
  /\ NeedsBuffer("DISCARD") => Len(buffers) < MaxBuffers
  /\ writes' = writes + 1
  /\ asks' = "GetRenderTargetData"
  /\ flight' = Append(flight, ImageCommand("GetRenderTargetData", writes + 1))
  /\ meant' = [c \in Cells |-> writes + 1]
  /\ UNCHANGED <<constantsOfSurface, m_bufferId, buffers, m_lockInfoQueue, held, reply, image, astray>>

(* The game draws on a back buffer.                                         *)
Draw ==
  /\ captured /\ held = <<>> /\ asks = "none" /\ writes < MaxWrites /\ Len(flight) < MaxFlight
  /\ writes' = writes + 1
  /\ flight' = Append(flight, ImageCommand("Draw", writes + 1))
  /\ meant' = [c \in Cells |-> writes + 1]
  /\ UNCHANGED <<constantsOfSurface, m_bufferId, buffers, m_lockInfoQueue, held, asks, reply, image, astray>>

(* copyServerSurfaceRawData: the answer goes to the client's memory through *)
(* a lock that discards, and its unlock takes the oldest lock, which in     *)
(* LockRect is the game's own.                                              *)
copyServerSurfaceRawData ==
  /\ reply # <<>>
  /\ LET rowSize == calcRowSize("Client", surface.width, format)
         memory == [BuffersFor("DISCARD") EXCEPT ![BufferFor("DISCARD")] =
                      RowsCopied(@, 0, Pitch, reply, 0, rowSize, calcStride(surface.height, format), rowSize)]
         locks == Append(m_lockInfoQueue, LockInfo(Whole, "DISCARD"))
     IN /\ buffers' = memory
        /\ m_lockInfoQueue' = Tail(locks)
        /\ flight' = flight \o Unlocked(locks, memory)
  /\ m_bufferId' = BufferFor("DISCARD")
  /\ asks' = "none" /\ reply' = <<>>
  /\ UNCHANGED <<constantsOfSurface, held, image, meant, writes, astray>>

--------------------------------------------------------------------------------
(* The server.  A lock that discards may give it other memory.              *)
Painted(write) ==
  [p \in DOMAIN image |->
     IF p % ServerPitch < RowBytes THEN <<write, p \div ServerPitch, p % ServerPitch>> ELSE Undefined]

ServerUnlockRect(m) ==
  LET rowSize == calcRowSize("Server", Width(m.rect), format)
      rows == calcStride(Height(m.rect), format)
      start == calcImageByteOffset(ServerPitch, m.rect, format)
      from == IF useSharedHeap THEN buffers[m.bufId] ELSE m.blob
      fromStart == IF useSharedHeap THEN calcImageByteOffset(m.pitch, m.rect, format) ELSE 0
      locked == IF m.flags = "DISCARD" THEN Blank(Rows * ServerPitch) ELSE image
  IN /\ image' = RowsCopied(locked, start, ServerPitch, from, fromStart, m.pitch, rows, rowSize)
     /\ astray' = (astray \/ LeavesMemory(image, start, ServerPitch, rows, rowSize)
                          \/ LeavesMemory(from, fromStart, m.pitch, rows, rowSize))
     /\ UNCHANGED reply

ReturnSurfaceDataToClient(picture) ==
  LET rowSize == calcRowSize("Server", surface.width, format)
      rows == calcStride(surface.height, format)
      total == calcTotalSizeOfRect("Server", surface.width, surface.height, format)
  IN /\ reply' = RowsCopied(Blank(total), 0, rowSize, picture, 0, ServerPitch, rows, rowSize)
     /\ astray' = (astray \/ LeavesMemory(picture, 0, ServerPitch, rows, rowSize))

ServeImage ==
  /\ flight # <<>>
  /\ LET m == Head(flight)
     IN \/ m.cmd = "UnlockRect" /\ ServerUnlockRect(m)
        \/ m.cmd = "LockRect" /\ ReturnSurfaceDataToClient(image) /\ UNCHANGED image
        \/ /\ m.cmd = "GetRenderTargetData"
           /\ image' = Painted(m.write)
           /\ ReturnSurfaceDataToClient(Painted(m.write))
        \/ m.cmd = "Draw" /\ image' = Painted(m.write) /\ UNCHANGED <<reply, astray>>
  /\ flight' = Tail(flight)
  /\ UNCHANGED <<constantsOfSurface, m_bufferId, buffers, m_lockInfoQueue, held, asks, meant, writes>>

--------------------------------------------------------------------------------
(* A captured back buffer has a shadow: in the shared heap the lock inside  *)
(* copyServerSurfaceRawData would give the surface another buffer than the  *)
(* one the game has just been given.                                        *)
InitImages ==
  /\ surface \in Shapes
  /\ useSharedHeap \in BOOLEAN
  /\ captured \in BOOLEAN /\ (captured => ~useSharedHeap)
  /\ m_bufferId = 0 /\ buffers = <<>> /\ m_lockInfoQueue = <<>> /\ held = <<>>
  /\ flight = <<>> /\ asks = "none" /\ reply = <<>>
  /\ image = Blank(Rows * ServerPitch)
  /\ meant = [c \in Cells |-> 0]
  /\ writes = 0 /\ astray = FALSE

ImagesNext ==
  \/ \E rect \in surface.rects, flags \in {"0", "READONLY", "DISCARD"} : LockRect(rect, flags)
  \/ \E rect \in surface.rects : WriteLocked(rect)
  \/ GetDC \/ ReleaseDC \/ UnlockRect \/ GetRenderTargetData \/ Draw
  \/ copyServerSurfaceRawData \/ ServeImage

ImagesSpec == InitImages /\ [][ImagesNext]_imageVars

--------------------------------------------------------------------------------
(* Once the commands have arrived the server's surface shows what the game  *)
(* last wrote and the server last drew, byte for byte and each byte in its  *)
(* place, whichever overlapping rectangles were locked, written in part or  *)
(* not at all, read back or discarded, however the two pitches differ; a    *)
(* game that locks a captured back buffer finds the server's picture in it; *)
(* and no copy reads or writes past what was sent or allocated.             *)
ImageCopied ==
  /\ ~astray
  /\ held = <<>> /\ flight = <<>> /\ asks = "none" =>
       \A c \in Cells : meant[c] # 0 => ByteAt(image, c[1] * ServerPitch + c[2]) = <<meant[c], c[1], c[2]>>
  /\ held # <<>> /\ captured /\ asks = "none" =>
       \A c \in CellsOf(held[1]) :
         meant[c] # 0 => ByteAt(buffers[m_bufferId], c[1] * Pitch + c[2]) = <<meant[c], c[1], c[2]>>

(* The answer has the size the client computes for it: the assertion in     *)
(* copyServerSurfaceRawData, "pulledSize == numRows * rowSize".             *)
PulledSizeFits ==
  reply # <<>> => Cardinality(DOMAIN reply) = calcStride(surface.height, format) * calcRowSize("Client", surface.width, format)
================================================================================
