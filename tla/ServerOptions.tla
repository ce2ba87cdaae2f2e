--------------------------- MODULE ServerOptions ---------------------------
(***************************************************************************)
(* functional_options_pattern: NewServer copies the package's defaults,    *)
(* lets each option change the copy or refuse, and builds the server from  *)
(* what results.  Servers are built by callers that may run side by side.  *)
(***************************************************************************)
EXTENDS Integers, Sequences, FiniteSetsExt

CONSTANTS
  Builds,    \* the calls of NewServer
  Numbers,   \* what the caller passes: ports, and timeouts in seconds
  Names,     \* what the caller passes to WithServerName
  MaxOptions \* the most options of one call

ASSUME OptionsAssumption == Numbers \subseteq Int /\ MaxOptions \in Nat

VARIABLES
  defaultServerOpts, \* the package variable
  options,           \* the options of each call
  phase,             \* "idle", "building", "built" or "refused"
  given,             \* history: the options applied so far
  server             \* what NewServer returned

optionVars == <<defaultServerOpts, options, phase, given, server>>

Timeouts == {"readTimeout", "writeTimeout"}

Defaults == [port |-> 8080, readTimeout |-> 3, writeTimeout |-> 10, serverName |-> "default"]

Nothing == "nothing"

OptionsInit ==
  /\ defaultServerOpts = Defaults
  /\ options = [b \in Builds |-> Nothing]
  /\ phase = [b \in Builds |-> "idle"]
  /\ given = [b \in Builds |-> <<>>]
  /\ server = [b \in Builds |-> Nothing]

(* The options a caller can name. *)
Option ==
  [field : {"port"} \cup Timeouts, value : Numbers]
    \cup [field : {"serverName"}, value : Names]

Begin(b) ==
  /\ phase[b] = "idle"
  /\ phase' = [phase EXCEPT ![b] = "building"]
  /\ options' = [options EXCEPT ![b] = defaultServerOpts]
  /\ UNCHANGED <<defaultServerOpts, given, server>>

Refuses(opt) ==
  \/ opt.field = "port" /\ opt.value < 0
  \/ opt.field \in Timeouts /\ opt.value <= 0

(* Mutant: NewServer works on the package variable itself. *)
ApplyShared(b, opt) ==
  /\ phase[b] = "building" /\ Len(given[b]) < MaxOptions
  /\ ~Refuses(opt)
  /\ options' = [options EXCEPT ![b][opt.field] = opt.value]
  /\ defaultServerOpts' = [defaultServerOpts EXCEPT ![opt.field] = opt.value]
  /\ given' = [given EXCEPT ![b] = Append(@, opt)]
  /\ UNCHANGED <<phase, server>>

Apply(b, opt) ==
  /\ phase[b] = "building" /\ Len(given[b]) < MaxOptions
  /\ ~Refuses(opt)
  /\ options' = [options EXCEPT ![b][opt.field] = opt.value]
  /\ given' = [given EXCEPT ![b] = Append(@, opt)]
  /\ UNCHANGED <<defaultServerOpts, phase, server>>

Refuse(b, opt) ==
  /\ phase[b] = "building" /\ Len(given[b]) < MaxOptions
  /\ Refuses(opt)
  /\ phase' = [phase EXCEPT ![b] = "refused"]
  /\ UNCHANGED <<defaultServerOpts, options, given, server>>

(* The server takes its write timeout from the read timeout. *)
Finish(b) ==
  /\ phase[b] = "building"
  /\ phase' = [phase EXCEPT ![b] = "built"]
  /\ server' = [server EXCEPT ![b] =
       [port |-> options[b].port, readTimeout |-> options[b].readTimeout,
        writeTimeout |-> options[b].readTimeout, serverName |-> options[b].serverName]]
  /\ UNCHANGED <<defaultServerOpts, options, given>>

OptionsNext ==
  \E b \in Builds :
    \/ Begin(b) \/ Finish(b)
    \/ \E opt \in Option : Apply(b, opt) \/ Refuse(b, opt)

OptionsSpec == OptionsInit /\ [][OptionsNext]_optionVars

-----------------------------------------------------------------------------
(* Properties. *)

(* What the last option of a call for a field asked for, or the default.   *)
Asked(b, field) ==
  LET of == {i \in DOMAIN given[b] : given[b][i].field = field}
  IN  IF of = {} THEN Defaults[field] ELSE given[b][Max(of)].value

(* A server listens on the port, and has the name and the read timeout,    *)
(* that the last such option of its own call asked for, or the default:    *)
(* nothing of another call, made before it or beside it, shows in it.      *)
LastOptionWins ==
  \A b \in Builds : phase[b] = "built" =>
    \A field \in {"port", "readTimeout", "serverName"} :
      server[b][field] = Asked(b, field)

(* The write timeout of a server is the one its options gave it, 10 s by   *)
(* default (options.go:21 and WithWriteTimeout).                           *)
WriteTimeoutIsOptions ==
  \A b \in Builds : phase[b] = "built" =>
    server[b].writeTimeout = Asked(b, "writeTimeout")
=============================================================================
