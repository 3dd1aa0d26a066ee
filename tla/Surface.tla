------------------------------ MODULE Surface ------------------------------
(* What operators and callers touch: the DATA phase of SMTP (whose module this *)
(* one extends), the settings, the guard, the message handlers, the assert     *)
(* filter, release and the static files.  They share no state that these       *)
(* modules speak of, so an interleaving of two of them shows nothing that each *)
(* alone does not: all stand in an initial state, and the one `part` names     *)
(* runs.                                                                       *)
EXTENDS DataPhase

CONSTANTS
  Unset,                                                         \* an option that is not set
  Scalars, Lists, Varied,                                        \* Config
  Names, KindOf, Ports, HostTexts, OriginTexts,                  \* Gate
  Ids, Requests, MaxLen, HeaderPrefix, Limits, MaxVer,           \* Reads
  Letters, MaxText, MaxFilter,                                   \* Matching
  Releases, Mail, ReleaseHosts, PortOf, Asked, Good,             \* Release
  NoSender, Unreadable,
  Builds, IndexOf, IconOf, ScriptOf                              \* StaticFiles

VARIABLES
  part,                                                                \* the part that runs
  broken, given, env, pc, command, used, tls,                          \* Config
  texts, up, allowed, tab,                                             \* Gate
  captured, life, ver, damage, req, landed, cache,                     \* Reads
  text, filter, answer,                                                \* Matching
  option, stored, release, relay, accepted,                            \* Release
  build, kept, page, moved, api                                        \* StaticFiles

configVars == <<broken, given, env, pc, command, used, tls>>
gateVars == <<texts, up, allowed, tab>>
readsVars == <<captured, life, ver, damage, req, landed, cache>>
matchingVars == <<text, filter, answer>>
releaseVars == <<option, stored, release, relay, accepted>>
filesVars == <<build, kept, page, moved, api>>
otherVars == <<configVars, gateVars, readsVars, matchingVars, releaseVars, filesVars>>
surfaceVars == <<part, vars, otherVars>>

C == INSTANCE Config
G == INSTANCE Gate
R == INSTANCE Reads
M == INSTANCE Matching
L == INSTANCE Release WITH
       req <- release, Requests <- Releases, Options <- ReleaseHosts, NoPort <- -1
F == INSTANCE StaticFiles WITH cache <- kept, tab <- page

ASSUME SurfaceAssumption ==
  /\ C!ConfigAssumption /\ G!GateAssumption /\ R!ReadsAssumption
  /\ M!LettersAssumption /\ L!ReleaseAssumption /\ F!StaticFilesAssumption

----------------------------------------------------------------------------

SurfaceInit ==
  /\ part \in {"data", "config", "gate", "reads", "matching", "release", "files"}
  /\ G!Init /\ (part = "gate" \/ texts = [hosts |-> {}, origins |-> {}])
  /\ R!Init /\ (part = "reads" \/ captured = CHOOSE c \in [Ids -> R!Message] : TRUE)
  /\ L!Init /\ (part = "release" \/ option = Unset)
  /\ F!Init /\ (part = "files" \/ build = CHOOSE b \in Builds : TRUE)
  /\ IF part = "matching" THEN M!Init ELSE text = <<>> /\ filter = <<>> /\ answer = "none"
  /\ IF part = "config" THEN C!Init
     ELSE /\ given = [flag |-> C!None, env |-> C!None, file |-> C!None]
          /\ command = "serve" /\ broken = FALSE /\ pc = "load"
          /\ env = C!None /\ used = C!None /\ tls = FALSE
  /\ IF part = "data" THEN Init
     ELSE /\ sent = <<>> /\ max = 0 /\ pos = 0 /\ data = <<>> /\ line_buf = <<>>
          /\ mid_line = FALSE /\ line_head = <<>> /\ mode = "receive"

SurfaceNext ==
  /\ UNCHANGED part
  /\ \/ part = "data" /\ Next /\ UNCHANGED otherVars
     \/ part = "config" /\ C!Next
        /\ UNCHANGED <<vars, gateVars, readsVars, matchingVars, releaseVars, filesVars>>
     \/ part = "gate" /\ G!Next
        /\ UNCHANGED <<vars, configVars, readsVars, matchingVars, releaseVars, filesVars>>
     \/ part = "reads" /\ R!Next
        /\ UNCHANGED <<vars, configVars, gateVars, matchingVars, releaseVars, filesVars>>
     \/ part = "matching" /\ M!Next
        /\ UNCHANGED <<vars, configVars, gateVars, readsVars, releaseVars, filesVars>>
     \/ part = "release" /\ L!Next
        /\ UNCHANGED <<vars, configVars, gateVars, readsVars, matchingVars, filesVars>>
     \/ part = "files" /\ F!Next
        /\ UNCHANGED <<vars, configVars, gateVars, readsVars, matchingVars, releaseVars>>

SurfaceSpec == SurfaceInit /\ [][SurfaceNext]_surfaceVars

----------------------------------------------------------------------------

(* Flags, environment, file and defaults decide in the documented order, a     *)
(* start is refused only for a broken file, half a TLS pair or a value that    *)
(* counts and is not valid, and STARTTLS is offered exactly when both halves   *)
(* were given and are good.                                                    *)
SettingsAreRight == C!TypeOK /\ C!Precedence /\ C!RefusedForAReason /\ C!TlsAsGiven

(* A page the server handed out can open its feed, no page but that one or one *)
(* of a configured origin can, requests are answered at the names given and    *)
(* only there, and no flag is dropped.                                         *)
GuardIsRight ==
  /\ G!TypeOK
  /\ G!OwnPageMaySubscribe /\ G!OnlyOwnOrConfigured
  /\ G!AnsweredByName /\ G!EveryFlagCounts

(* A kept answer is one that asking again could give, and a header section is  *)
(* served whole, while the message is stored and the disk keeps it.  Whatever  *)
(* the disk did, a source, a message and a located part are served at their    *)
(* recorded size or not at all, a prefix within its limit, and other bytes     *)
(* than were captured only when the message is damaged.  And no error a write  *)
(* is answered with stands for a change that was made.                         *)
AnswersAreTrue ==
  /\ R!TypeOK
  /\ R!KeptIsCurrent /\ R!HeadersAreWhole
  /\ R!SizeAsRecorded /\ R!ErrorMeansNoChange

(* A message is counted only when its text contains the filter, case apart,    *)
(* and left out though it does only for a capital outside ASCII.               *)
CountedIffItContains == M!CountedIffItContains

(* Mail is released to the configured relay alone, with the captured envelope  *)
(* and text, and over TLS whatever the port and the relay's offer ("the        *)
(* message is never sent if the relay cannot upgrade"); it is reported as done *)
(* only when the relay took it, and a refused release left no copy anywhere.   *)
ReleaseIsTrue ==
  /\ L!TypeOK
  /\ L!OnlyConfiguredTarget /\ L!SentAsCaptured /\ L!NeverInTheClear
  /\ L!ReleasedIsTrue /\ L!RefusedSentNothing

(* A page that is loaded is the one the server has, it runs its own script or  *)
(* none, and only a client-side route is answered with the page.               *)
PagesAreWhole == F!TypeOK /\ F!PageIsCurrent /\ F!ScriptIsThePages /\ F!HtmlOnlyForRoutes
============================================================================
