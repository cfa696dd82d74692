-------------------------------- MODULE Shaders --------------------------------
(***************************************************************************)
(* How much of a shader the client keeps and sends: CommonShader           *)
(* (client/d3d9_commonshader.h) is given a pointer to the shader's tokens  *)
(* and no size, and walks from instruction to instruction up to the END    *)
(* token.  Shader models 2 and 3 write the length of an instruction into   *)
(* its first token; for model 1 the code has a table, which is one word    *)
(* short of a few of them.                                                 *)
(*                                                                         *)
(* A token is what the walk may look at in it: the opcode in its low bits  *)
(* and the length in its high ones.  The words after an instruction's      *)
(* first token (registers, constants, comments) may look like anything.    *)
(***************************************************************************)
EXTENDS Naturals, Sequences, SequencesExt

CONSTANTS
  MaxInstructions,  \* instructions of a shader, at most
  Lengths           \* lengths written in first tokens and comments

ASSUME ShadersAssumption == MaxInstructions \in Nat /\ Lengths \subseteq Nat

D3DSIO_COMMENT == \hFFFE
D3DSIO_END == \hFFFF
D3DSIO_DEF == \h51
D3DSIO_NOP == 0
D3DSIO_TEXCRD == \h40
D3DSIO_TEXLD == \h42

Versions == {[major |-> 1, minor |-> 1], [major |-> 1, minor |-> 4], [major |-> 2, minor |-> 0],
             [major |-> 3, minor |-> 0]}

(* The switch of getShaderInstructionSize, by the size it returns.          *)
SizeTable ==
  [n \in 1..5 |->
     CASE n = 1 -> {\h0, \h1c, \h1d, \h27, \h2a, \h2b, \h2c}
       [] n = 2 -> {\h19, \h1e, \h26, \h28, \h40, \h41, \h42, \h57}
       [] n = 3 -> {\h1, \h6, \h7, \he, \hf, \h10, \h13, \h1a, \h1b, \h1f, \h23, \h24, \h29} \cup \h2d..\h2f
                   \cup \h43..\h4a \cup \h4d..\h4f \cup \h52..\h56 \cup {\h5b, \h5c, \h60}
       [] n = 4 -> {\h2, \h3, \h5, \h11, \h20, \h21, \h4c, \h59, \h5e, \h5f} \cup \h8..\hd \cup \h14..\h18
       [] n = 5 -> {\h4, \h12, \h22, \h25, \h30, \h50, \h51, \h58, \h5a, \h5d}]

(* Variant with a bug: the first token is not counted where it has the length. *)
SizeBehindToken(majorVersion, token) ==
  IF token.opcode = D3DSIO_COMMENT \/ majorVersion >= 2 THEN token.length
  ELSE IF \E n \in DOMAIN SizeTable : token.opcode \in SizeTable[n]
       THEN CHOOSE n \in DOMAIN SizeTable : token.opcode \in SizeTable[n]
       ELSE 1

getShaderInstructionSize(majorVersion, token) ==
  IF token.opcode = D3DSIO_COMMENT \/ majorVersion >= 2 THEN token.length + 1
  ELSE IF \E n \in DOMAIN SizeTable : token.opcode \in SizeTable[n]
       THEN CHOOSE n \in DOMAIN SizeTable : token.opcode \in SizeTable[n]
       ELSE 1

--------------------------------------------------------------------------------
(* The instruction set of shader model 1: the words after an instruction's  *)
(* first token, one for the destination and one for each source (dcl: its   *)
(* usage and its register; def: a register and four numbers).               *)
OperandTable ==
  [n \in 0..5 |->
     CASE n = 0 -> {\h0, \hFFFD}                                            \* nop, phase
       [] n = 1 -> \h40..\h42 \cup {\h57}                                   \* texcoord, texkill, tex, texdepth
       [] n = 2 -> {\h1, \h6, \h7, \he, \hf, \h10, \h13, \h1f}                \* mov, rcp, rsq, exp, log, lit, frc, dcl
                   \cup \h43..\h4a \cup \h4d..\h4f \cup \h52..\h56           \* texbem .. texm3x3, expp, logp
       [] n = 3 -> {\h2, \h3, \h5, \h11, \h4c, \h59}                         \* add, sub, mul, dst, texm3x3spec, bem
                   \cup \h8..\hd \cup \h14..\h18                             \* dp3 .. sge, m4x4 .. m3x2
       [] n = 4 -> {\h4, \h12, \h50, \h58}                                  \* mad, lrp, cnd, cmp
       [] n = 5 -> {D3DSIO_DEF}]

Operands ==
  [op \in UNION {OperandTable[n] : n \in 0..5} |-> CHOOSE n \in 0..5 : op \in OperandTable[n]]

Words(n, low) == [i \in 1..n |-> [opcode |-> low, length |-> 0]]

(* Words that look like an END or like nothing.                             *)
Look == {D3DSIO_END, D3DSIO_NOP}

Comment(n, low) == <<[opcode |-> D3DSIO_COMMENT, length |-> n]>> \o Words(n, low)

WithLength(op, n, low) == <<[opcode |-> op, length |-> n]>> \o Words(n, low)

(* The table is a word short of a def, and of the texcrd and texld of       *)
(* ps_1_4, which have a source of their own where texcoord and tex do not.  *)
(* The last word of these is the next the walk looks at.                    *)
OneShort(minor) == {D3DSIO_DEF} \cup IF minor = 4 THEN {D3DSIO_TEXCRD, D3DSIO_TEXLD} ELSE {}

FromTable(op, low) == <<[opcode |-> op, length |-> 0]>> \o Words(Operands[op], low)

ShortOfAWord(op, low, last) ==
  <<[opcode |-> op, length |-> 0]>> \o (Words(IF op = D3DSIO_DEF THEN 4 ELSE 1, low) \o Words(1, last))

Instructions(version) ==
  {Comment(n, low) : n \in Lengths, low \in Look}
  \cup IF version.major >= 2
       THEN {WithLength(op, n, low) : op \in {\h1, D3DSIO_DEF}, n \in Lengths, low \in Look}
       ELSE {FromTable(op, low) : op \in DOMAIN Operands \ OneShort(version.minor), low \in Look}
            \cup {ShortOfAWord(op, low, last) : op \in OneShort(version.minor), low \in Look, last \in Look \cup {1}}

(* An instruction on which the walk goes astray: the word the table leaves  *)
(* out does not look like a nop, which is one word long.                    *)
Astray(version, s) ==
  /\ version.major = 1 /\ s[1].opcode \in OneShort(version.minor)
  /\ s[Len(s)].opcode # D3DSIO_NOP

Bodies(version) == UNION {[1..n -> Instructions(version)] : n \in 0..MaxInstructions}

Shader(version, body) ==
  <<[opcode |-> version.major, length |-> version.minor]>> \o FlattenSeq(body)
    \o <<[opcode |-> D3DSIO_END, length |-> 0]>>

--------------------------------------------------------------------------------
VARIABLES
  pFunction,  \* the shader the game passed to CreateVertexShader or CreatePixelShader, or <<>>
  pTokens,    \* how far the walk is
  m_code,     \* the copy, or <<>>
  astray      \* ghost: the shader has an instruction on which the walk goes astray

shaderVars == <<pFunction, pTokens, m_code, astray>>

InitShaders == pFunction = <<>> /\ pTokens = 0 /\ m_code = <<>> /\ astray = FALSE

(* CommonShader(pFunction): the walk starts behind the header.              *)
Analyze(version, body) ==
  /\ pFunction = <<>>
  /\ pFunction' = Shader(version, body) /\ pTokens' = 2
  /\ astray' = (\E i \in DOMAIN body : Astray(version, body[i]))
  /\ UNCHANGED m_code

(* A step of getShaderByteSize's loop, and its end with the copy.           *)
StepOver ==
  /\ pFunction # <<>> /\ m_code = <<>> /\ pTokens <= Len(pFunction)
  /\ pFunction[pTokens].opcode # D3DSIO_END
  /\ pTokens' = pTokens + getShaderInstructionSize(pFunction[1].opcode, pFunction[pTokens])
  /\ UNCHANGED <<pFunction, m_code, astray>>

Copy ==
  /\ pFunction # <<>> /\ m_code = <<>> /\ pTokens <= Len(pFunction)
  /\ pFunction[pTokens].opcode = D3DSIO_END
  /\ m_code' = SubSeq(pFunction, 1, pTokens)
  /\ UNCHANGED <<pFunction, pTokens, astray>>

ShaderNext ==
  \/ StepOver \/ Copy
  \/ pFunction = <<>> /\ \E version \in Versions : \E body \in Bodies(version) : Analyze(version, body)

ShaderSpec == InitShaders /\ [][ShaderNext]_shaderVars

(* The walk never leaves the shader, and what is copied is all of it,       *)
(* however much the words between its instructions look like an END: the    *)
(* server compiles the shader the game wrote.  Not claimed of shaders of    *)
(* model 1 with a def, or in ps_1_4 a texcrd or texld, whose last word does *)
(* not look like a nop: there the table of sizes is one word short, and the *)
(* walk takes that word for an instruction.                                 *)
ShaderCopiedWhole ==
  ~astray =>
    /\ pTokens <= Len(pFunction)
    /\ m_code # <<>> => m_code = pFunction
================================================================================
