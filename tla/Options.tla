-------------------------------- MODULE Options --------------------------------
(***************************************************************************)
(* The options of the two processes (util/config).  Each reads bridge.conf *)
(* on its own when it starts, the client from the directory .trex next to  *)
(* its module and the server, which lives in that directory, from its own; *)
(* lays what the user wrote over the defaults of the application; and      *)
(* keeps the values, parsed to the type of each option, in GlobalOptions.  *)
(* Nothing but the file makes the two agree on how long their queues are   *)
(* and which calls are answered.                                           *)
(*                                                                         *)
(* A line of the file is a key, a value and the form it is written in;     *)
(* Text is what the parser sees of it, a sequence of tokens: a word is a   *)
(* token, a blank or a punctuation mark is one too, and so is a digit.     *)
(***************************************************************************)
EXTENDS Naturals, Sequences, SequencesExt, TLC

CONSTANT
  Files       \* what bridge.conf may say: sequences of lines [key, value, form]

Processes == {"Client", "Server"}

--------------------------------------------------------------------------------
(* The text of a line, and what its author means by it.                     *)
Text(line) ==
  CASE line.form = "plain" -> <<line.key, "=">> \o line.value
    [] line.form = "spaced" -> <<" ", line.key, " ", " ", "=", " ">> \o line.value \o <<" ">>
    [] line.form = "quoted" -> <<line.key, " ", "=", " ", "quote">> \o line.value \o <<"quote">>
    [] line.form = "remark" -> <<line.key, " ", "=", " ">> \o line.value \o <<" ", "#", "word">>
    [] line.form = "comment" -> <<"#", " ", line.key, " ", "=", " ">> \o line.value
    [] line.form = "section" -> <<"[", line.key, "]">>
    [] line.form = "no value" -> <<line.key, " ">> \o line.value

Means(line) == line.form \in {"plain", "spaced", "quoted", "remark"}

--------------------------------------------------------------------------------
(* parseUserConfigLine.                                                     *)
isWhitespace(ch) == ch = " "
isValidKeyChar(ch) == ch \notin {" ", "=", "[", "]", "#", "quote", ",", "-"}

(* The first position from n on where the line does not go on like that.    *)
SkipWhile(line, n, Test(_)) ==
  LET after == {i \in n..Len(line) : ~Test(line[i])}
  IN IF after = {} THEN Len(line) + 1 ELSE CHOOSE i \in after : \A j \in after : i <= j

skipWhitespace(line, n) == SkipWhile(line, n, isWhitespace)

(* A blank outside quotation marks ends the value, the marks are dropped.   *)
ValueFrom(line, n) ==
  FoldLeft(LAMBDA r, ch : IF r.done \/ (~r.inside /\ isWhitespace(ch)) THEN [r EXCEPT !.done = TRUE]
                          ELSE IF ch = "quote" THEN [r EXCEPT !.inside = ~@]
                          ELSE [r EXCEPT !.value = Append(@, ch)],
           [done |-> FALSE, inside |-> FALSE, value |-> <<>>], SubSeq(line, n, Len(line))).value

parseUserConfigLine(options, line) ==
  LET n == skipWhitespace(line, 1)
      e == SkipWhile(line, n, isValidKeyChar)
      eq == skipWhitespace(line, e)
      key == IF e = n THEN "" ELSE line[n] \* keys are words
  IN IF n <= Len(line) /\ line[n] = "[" THEN options
     ELSE IF eq > Len(line) \/ line[eq] # "=" THEN options
     ELSE (key :> ValueFrom(line, skipWhitespace(line, eq + 1))) @@ options

--------------------------------------------------------------------------------
(* parseOptionValue: <<"none">> when the value is refused, <<"throws">>     *)
(* when the library's conversion ends the process.                          *)
Digit == ("0" :> 0) @@ ("1" :> 1) @@ ("2" :> 2) @@ ("5" :> 5) @@ ("6" :> 6) @@ ("f" :> 15)

parse_string(v) == IF v = <<>> THEN <<"none">> ELSE <<"string", v>>

(* getline with ',': an empty text has no parts.                            *)
parse_strings(v) == IF v = <<>> THEN <<"none">> ELSE <<"strings", ToSet(v) \ {","}>>

parse_bool(v) ==
  IF v = <<"True">> THEN <<"bool", 1>> ELSE IF v = <<"False">> THEN <<"bool", 0>> ELSE <<"none">>

Decimal(v) == \A i \in DOMAIN v : v[i] \in DOMAIN Digit \ {"f"}

(* Digit by digit in a word of w bits.                                      *)
Wrapped(v, w) == FoldLeft(LAMBDA n, d : (n * 10 + Digit[d]) % 2^w, 0, v)

parse_uint(v, w) == IF v = <<>> \/ ~Decimal(v) THEN <<"none">> ELSE <<"number", Wrapped(v, w)>>

(* An int32_t; a sign is allowed, a number that does not fit is not passed. *)
parse_int32(v) ==
  IF v = <<>> THEN <<"none">>
  ELSE LET digits == IF v[1] = "-" THEN Tail(v) ELSE v
       IN IF ~Decimal(digits) THEN <<"none">>
          ELSE <<"number", IF v[1] = "-" THEN 0 - Wrapped(digits, 30) ELSE Wrapped(digits, 30)>>

(* stoul and stod read as many digits as there are and throw when there is  *)
(* none; a bitset takes no other digit.  The files' numbers are below 2^31, *)
(* where a size_t of 32 and one of 64 bits do not differ.                   *)
Leading(v, digits, base) ==
  LET IsDigit(d) == d \in digits
      n == SkipWhile(v, 1, IsDigit) - 1
  IN IF n = 0 THEN <<"throws">>
     ELSE <<"number", FoldLeft(LAMBDA x, d : (x * base + Digit[d]) % 2^24, 0, SubSeq(v, 1, n))>>

Times(parsed, k) == IF parsed[1] = "number" THEN <<"number", parsed[2] * k>> ELSE parsed

parse_uint32(v) ==
  LET Has(token) == \E i \in DOMAIN v : v[i] = token
      decimal == DOMAIN Digit \ {"f"}
  IN CASE v = <<>> -> <<"none">>
       [] Has("kB") -> Times(Leading(v, decimal, 10), 2^10)
       [] Has("MB") -> Times(Leading(v, decimal, 10), 2^20)
       [] Has("GB") -> Times(Leading(v, decimal, 10), 2^30)
       [] Has("0b") -> IF ToSet(Tail(v)) \subseteq {"0", "1"} THEN Leading(Tail(v), {"0", "1"}, 2) ELSE <<"throws">>
       [] Has("0x") -> Leading(Tail(v), DOMAIN Digit, 16)
       [] OTHER -> Leading(v, decimal, 10)

parseOptionValue(kind, v) ==
  CASE kind = "string" -> parse_string(v)
    [] kind = "strings" -> parse_strings(v)
    [] kind = "bool" -> parse_bool(v)
    [] kind = "int32" -> parse_int32(v)
    [] kind = "uint32" -> parse_uint32(v)
    [] kind = "uint16" -> parse_uint(v, 16)
    [] kind = "uint8" -> parse_uint(v, 8)

--------------------------------------------------------------------------------
(* The options: their type and what they are when the file does not say.    *)
Bools(names, value) == [n \in names |-> <<"bool", <<"bool", value>>>>]
Number(kind, name, value) == name :> <<kind, <<"number", value>>>>

moduleChannelOptions ==
  Number("uint32", "moduleClientChannelMemSize", 4 * 2^20) @@ Number("uint32", "moduleClientCmdQueueSize", 5)
  @@ Number("uint32", "moduleClientDataQueueSize", 25) @@ Number("uint32", "moduleServerChannelMemSize", 4 * 2^20)
  @@ Number("uint32", "moduleServerCmdQueueSize", 5) @@ Number("uint32", "moduleServerDataQueueSize", 25)
deviceChannelOptions ==
  Number("uint32", "clientChannelMemSize", 96 * 2^20) @@ Number("uint32", "clientCmdQueueSize", 3 * 2^10)
  @@ Number("uint32", "clientDataQueueSize", 3 * 2^10) @@ Number("uint32", "serverChannelMemSize", 32 * 2^20)
  @@ Number("uint32", "serverCmdQueueSize", 10) @@ Number("uint32", "serverDataQueueSize", 25)
responseOptions ==
  Bools({"sendReadOnlyCalls", "sendAllServerResponses"}, 0) @@ Bools({"sendCreateFunctionServerResponses"}, 1)
logOptions ==
  Bools({"logApiCalls", "logAllCalls", "logAllCommands", "logServerCommands"}, 0)
  @@ "logLevel" :> <<"string", <<"string", <<"Info">>>>>>
timeoutOptions ==
  Number("uint32", "commandTimeout", 1000) @@ Number("uint32", "startupTimeout", 100)
  @@ Number("uint32", "commandRetries", 300) @@ Number("uint32", "ackTimeout", 10)
  @@ Bools({"infiniteRetries", "disableTimeoutsWhenDebugging"}, 0) @@ Bools({"disableTimeouts"}, 1)
presentOptions ==
  Number("uint16", "keyStateCircBufMaxSize", 100) @@ Number("uint8", "presentSemaphoreMaxFrames", 3)
  @@ Bools({"presentSemaphoreEnabled"}, 1) @@ Bools({"commandBatchingEnabled"}, 0)
sharedHeapOptions ==
  Bools({"useSharedHeap"}, 0) @@ Number("uint32", "sharedHeapDefaultSegmentSize", 256 * 2^20)
  @@ Number("uint32", "sharedHeapChunkSize", 4 * 2^10) @@ Number("uint32", "sharedHeapFreeChunkWaitTimeout", 10)
deviceOptions ==
  Number("uint32", "threadSafetyPolicy", 0)
  @@ Bools({"alwaysCopyEntireStaticBuffer", "exposeRemixApi", "eliminateRedundantSetterCalls"}, 0)
  @@ Number("uint32", "clientCmdPublishBatch", 32) @@ Number("uint32", "clientFrameCap", 0)
  @@ Bools({"clientStateBatch"}, 1)

OptionTable ==
  moduleChannelOptions @@ deviceChannelOptions @@ responseOptions @@ logOptions @@ timeoutOptions
  @@ presentOptions @@ sharedHeapOptions @@ deviceOptions

(* The options that are not kept: they are looked up when they are used.    *)
ClientOptions ==
  Bools({"client.useVanillaDxvk", "client.setExceptionHandler", "client.hookMessagePump",
         "client.overrideCustomWinHooks", "client.DirectInput.disableExclusiveInput",
         "client.enableBackbufferCapture", "client.forceWindowed", "client.optimizedDynamicLock"}, 0)
  @@ Bools({"client.enableDpiAwareness"}, 1)
  @@ Number("int32", "client.DirectInput.forward.mousePolicy", 2)
  @@ Number("int32", "client.DirectInput.forward.keyboardPolicy", 2)
ServerOptions ==
  Bools({"server.useVanillaDxvk"}, 0) @@ Number("uint32", "server.shutdownTimeout", 100)
  @@ Number("uint32", "server.shutdownRetries", 50)
LookedUp == [p \in Processes |-> IF p = "Client" THEN ClientOptions ELSE ServerOptions]

--------------------------------------------------------------------------------
VARIABLES
  file,       \* bridge.conf in the directory .trex
  hl2,        \* the game is one with defaults of its own
  parentSeen, \* the server can find out the name of its parent
  m_options,  \* of each process: the texts of the options
  s_bIsInit,  \* Config::init has run
  global,     \* GlobalOptions, once initialised, else <<>>
  died        \* processes that ended in a conversion

optionVars == <<file, hl2, parentSeen, m_options, s_bIsInit, global, died>>

InitOptions ==
  /\ file \in Files
  /\ hl2 \in BOOLEAN /\ parentSeen \in BOOLEAN
  /\ m_options = [p \in Processes |-> <<>>]
  /\ s_bIsInit = [p \in Processes |-> FALSE]
  /\ global = [p \in Processes |-> <<>>]
  /\ died = {}

(* The key of the one default there is ends with a blank.                   *)
appDefaultConfigs == "presentSemaphoreMaxFrames " :> <<"1">>

getAppDefaultConfig(p) ==
  IF hl2 /\ (p = "Client" \/ parentSeen) THEN appDefaultConfigs ELSE <<>>

(* The lines of the file are set in the process's own options.              *)
getUserConfig(options, path) ==
  IF path # "module/.trex" THEN options
  ELSE FoldLeft(LAMBDA o, line : parseUserConfigLine(o, Text(line)), options, file)

(* Variant with a bug: the server looks for .trex in its own directory too. *)
UserConfPathBoth(p) == IF p = "Client" THEN "module/.trex" ELSE "module/.trex/.trex"

UserConfPath(p) == "module/.trex" \* the server's own directory is .trex

ConfigInit(p) ==
  /\ ~s_bIsInit[p]
  /\ p = "Server" => global["Client"] # <<>>   \* the client launches it
  /\ m_options' = [m_options EXCEPT ![p] = getUserConfig(getAppDefaultConfig(p) @@ @, UserConfPath(p))]
  /\ s_bIsInit' = [s_bIsInit EXCEPT ![p] = TRUE]
  /\ UNCHANGED <<file, hl2, parentSeen, global, died>>

isOptionDefined(p, name) == name \in DOMAIN m_options[p]
getOptionValue(p, name) == IF isOptionDefined(p, name) THEN m_options[p][name] ELSE <<>>

getOption(p, name, kind, fallback) ==
  LET parsed == parseOptionValue(kind, getOptionValue(p, name))
  IN IF parsed = <<"none">> THEN fallback ELSE parsed

(* The kinds of resources whose data is in the shared heap.                 *)
initSharedHeapPolicy(p, useSharedHeap) ==
  LET listed == getOption(p, "sharedHeapPolicy", "strings", <<"strings", {}>>)[2]
      policy == IF listed = {} THEN {"Textures", "StaticBuffers"}
                ELSE listed \cap {"Textures", "DynamicBuffers", "StaticBuffers"}
      shadow == getOption(p, "useShadowMemoryForDynamicBuffers", "bool", <<"bool", 0>>) = <<"bool", 1>>
  IN IF ~useSharedHeap THEN {}
     ELSE IF isOptionDefined(p, "useShadowMemoryForDynamicBuffers") /\ shadow = ("DynamicBuffers" \in policy)
     THEN IF "DynamicBuffers" \in policy THEN policy \ {"DynamicBuffers"} ELSE policy \cup {"DynamicBuffers"}
     ELSE policy

GlobalInit(p) ==
  /\ s_bIsInit[p] /\ global[p] = <<>> /\ p \notin died
  /\ LET value == [name \in DOMAIN OptionTable |-> getOption(p, name, OptionTable[name][1], OptionTable[name][2])]
     IN IF \E name \in DOMAIN value : value[name] = <<"throws">>
        THEN died' = died \cup {p} /\ UNCHANGED global
        ELSE /\ global' = [global EXCEPT ![p] =
                  ("sharedHeapPolicy" :> <<"strings", initSharedHeapPolicy(p, value["useSharedHeap"] = <<"bool", 1>>)>>)
                  @@ value]
             /\ UNCHANGED died
  /\ UNCHANGED <<file, hl2, parentSeen, m_options, s_bIsInit>>

(* The window loses or gets the focus: WM_KILLFOCUS, WM_SETFOCUS.           *)
setInfiniteRetries(p, on) ==
  /\ global[p] # <<>>
  /\ global["Server"] # <<>>    \* the handlers are registered once both run
  /\ global' = [global EXCEPT ![p]["infiniteRetries"] = <<"bool", on>>]
  /\ UNCHANGED <<file, hl2, parentSeen, m_options, s_bIsInit, died>>

OptionsNext ==
  \E p \in Processes : \/ ConfigInit(p) \/ GlobalInit(p)
                       \/ \E on \in {0, 1} : setInfiniteRetries(p, on)

--------------------------------------------------------------------------------
(* Most getters answer the member they are named for: sizes of channels and *)
(* queues, limits of the frames, the heap and the batches.                  *)
Member(p, name) == global[p][name]
On(p, name) == Member(p, name) = <<"bool", 1>>

(* Getters that answer something else.                                      *)
getUseSharedHeapFor(p, kind) == kind \in Member(p, "sharedHeapPolicy")[2]

getCommandTimeout(p) == IF On(p, "disableTimeouts") THEN <<"number", 0>> ELSE global[p]["commandTimeout"]
getStartupTimeout(p) == IF On(p, "disableTimeouts") THEN <<"number", 0>> ELSE global[p]["startupTimeout"]
getAckTimeout(p) == IF On(p, "disableTimeouts") THEN <<"number", 0>> ELSE global[p]["ackTimeout"]
getSemaphoreTimeout(p) == global[p]["commandTimeout"]
(* What the lines of the file mean: the last one of a key counts.           *)
Written(name) == {i \in DOMAIN file : file[i].key = name /\ Means(file[i])}

InForce(name, kind, fallback) ==
  LET last == CHOOSE i \in Written(name) : \A j \in Written(name) : j <= i
      parsed == parseOptionValue(kind, file[last].value)
  IN IF Written(name) = {} \/ parsed = <<"none">> THEN fallback ELSE parsed

(* The two processes take the same values from the file, whatever its       *)
(* lines look like, the last line of an option counting and a value that is *)
(* refused being the built-in one, so that queue sizes, answered calls,     *)
(* timeouts and the shared heap's use agree on both sides although nobody   *)
(* compares them.  It speaks of processes that live to take the values (a   *)
(* number that is none ends the process, where config.h promises the        *)
(* fallback) and of numbers below 4 GB, for which a size_t of 32 and one of *)
(* 64 bits do not differ; an application's default is no value in force,    *)
(* since no option has the key it is stored under.  Only infiniteRetries    *)
(* may differ later: it follows the focus of the window.                    *)
ProcessesAgree ==
  /\ \A p \in Processes : global[p] # <<>> =>
       \A name \in DOMAIN OptionTable \ {"infiniteRetries"} :
         global[p][name] = InForce(name, OptionTable[name][1], OptionTable[name][2])
  /\ \A p \in Processes \ died : s_bIsInit[p] =>
       \A name \in DOMAIN LookedUp[p] :
         LET o == LookedUp[p][name] IN getOption(p, name, o[1], o[2]) = InForce(name, o[1], o[2])
  /\ global["Server"] # <<>> =>
       /\ \A name \in DOMAIN global["Client"] \ {"infiniteRetries"} : global["Client"][name] = global["Server"][name]
       /\ \A get \in {[p \in Processes |-> getCommandTimeout(p)], [p \in Processes |-> getStartupTimeout(p)],
                      [p \in Processes |-> getAckTimeout(p)], [p \in Processes |-> getSemaphoreTimeout(p)]} :
            get["Client"] = get["Server"]
       /\ \A kind \in {"Textures", "DynamicBuffers", "StaticBuffers"} :
            /\ getUseSharedHeapFor("Client", kind) = getUseSharedHeapFor("Server", kind)
            /\ getUseSharedHeapFor("Client", kind) => On("Server", "useSharedHeap")
================================================================================
