-------------------------------- MODULE Gate --------------------------------
(* Who is answered: the names and origins read at startup, the Host guard in   *)
(* front of every route and the origin check of the WebSocket handshake, met   *)
(* by browsers that normalise what they send and proxies that respell it.      *)
EXTENDS Integers

CONSTANTS
  Names,         \* host names and addresses; one of them may be NoName
  KindOf,        \* name -> "ip", "localhost" or "dns"
  Ports,         \* ports browsers dial
  HostTexts,     \* values of --allowed-host
  OriginTexts    \* values of --allowed-origin

NoName == "noname"   \* an empty name
NoPort == -1         \* no port spelled
BadPort == -2        \* a port that is not a u16
MaxPort == 65535
Schemes == {"http", "https"}
Null == [scheme |-> "null", authority |-> [name |-> NoName, upper |-> FALSE, port |-> NoPort, clean |-> TRUE]]

(* host[:port] as spelled; upper: in capitals; clean: no path, credentials or  *)
(* blanks.                                                                     *)
Authority == [name : Names, upper : BOOLEAN, port : Ports \cup {NoPort, BadPort, 0}, clean : BOOLEAN]

(* Values of the flags; "other" is any scheme that is not a browser's.         *)
HostText == [name : Names, upper : BOOLEAN, bare : BOOLEAN]
OriginText == [scheme : Schemes \cup {"other"}, authority : Authority]

(* Flags that are blank once trimmed.                                          *)
BlankHost == [name |-> NoName, upper |-> FALSE, bare |-> TRUE]
BlankOrigin == [scheme |-> "other", authority |-> Null.authority]

GateAssumption ==
  /\ Ports \subseteq 1..MaxPort
  /\ HostTexts \subseteq HostText /\ OriginTexts \subseteq OriginText

VARIABLES
  texts,     \* the flags given: [hosts, origins]
  up,        \* "starting", "up" or "refused"
  allowed,   \* what they were read as: [hosts, origins]
  tab        \* a browser tab: [origin, own, dial, host, ws]

vars == <<texts, up, allowed, tab>>

NoDial == [scheme |-> "none", name |-> NoName, port |-> NoPort]
NoTab == [origin |-> Null, own |-> FALSE, dial |-> NoDial, host |-> Null.authority, ws |-> "none"]

----------------------------------------------------------------------------

Lower(h) == [name |-> h.name, upper |-> FALSE]

HostnameOf(a) == [name |-> a.name, upper |-> a.upper]

DefaultPort(scheme) == IF scheme = "http" THEN 80 ELSE 443
IsDefaultPort(scheme, port) == port = DefaultPort(scheme)

(* Mutant: the port does not count *)
NormalizeAuthorityHost(a, scheme) ==
  IF ~a.clean \/ a.name = NoName \/ a.port \in {BadPort, 0} THEN {}
  ELSE {[name |-> a.name, upper |-> FALSE, clean |-> TRUE, port |-> NoPort]}

(* The authority a browser would spell, or none.                               *)
NormalizeAuthority(a, scheme) ==
  IF ~a.clean \/ a.name = NoName \/ a.port \in {BadPort, 0} THEN {}
  ELSE {[name |-> a.name, upper |-> FALSE, clean |-> TRUE,
         port |-> IF IsDefaultPort(scheme, a.port) THEN NoPort ELSE a.port]}

ParseOrigin(o) ==
  IF o.scheme \notin Schemes THEN {}
  ELSE {[scheme |-> o.scheme, authority |-> a] : a \in NormalizeAuthority(o.authority, o.scheme)}

ParseHostname(t) == IF t.bare /\ t.name # NoName THEN {Lower([name |-> t.name, upper |-> t.upper])} ELSE {}

IsBrowserRequest(marks) == marks \cap {"sec-fetch", "origin", "mozilla"} # {}

HostAllowed(h) ==
  LET host == Lower(HostnameOf(h))
  IN /\ host.name # NoName
     /\ \/ KindOf[host.name] \in {"ip", "localhost"}
        \/ host \in allowed.hosts
        \/ \E o \in allowed.origins : HostnameOf(o.authority) = host

(* guard_host, in front of every route                                         *)
Guard(marks, h) == IsBrowserRequest(marks) => HostAllowed(h)

OriginAllowed(o, h) ==
  \E parsed \in ParseOrigin(o) :
    \/ parsed \in allowed.origins
    \/ NormalizeAuthority(h, parsed.scheme) = {parsed.authority}

----------------------------------------------------------------------------

TypeOK ==
  /\ up \in {"starting", "up", "refused"}
  /\ \A o \in allowed.origins :
       /\ ~o.authority.upper /\ o.authority.port \in Ports \cup {NoPort}
       /\ ~IsDefaultPort(o.scheme, o.authority.port)
  /\ \A h \in allowed.hosts : ~h.upper
  /\ tab.ws \in {"none", "open", "refused"}

Init ==
  /\ texts \in [hosts : SUBSET HostTexts, origins : SUBSET OriginTexts]
  /\ up = "starting"
  /\ allowed = [hosts |-> {}, origins |-> {}]
  /\ tab = NoTab

(* parse_allowed_origins, parse_allowed_hosts: blank values are dropped, and    *)
(* any other that cannot be read ends the program.                             *)
Given == [hosts |-> texts.hosts \ {BlankHost}, origins |-> texts.origins \ {BlankOrigin}]

Start ==
  /\ up = "starting"
  /\ IF \/ \E t \in Given.hosts : ParseHostname(t) = {}
        \/ \E o \in Given.origins : ParseOrigin(o) = {}
     THEN up' = "refused" /\ UNCHANGED allowed
     ELSE /\ up' = "up"
          /\ allowed' = [hosts |-> UNION {ParseHostname(t) : t \in Given.hosts},
                         origins |-> UNION {ParseOrigin(o) : o \in Given.origins}]
  /\ UNCHANGED <<texts, tab>>

(* The browser: capitals and default ports are gone from what it sends.        *)
BrowserAuthority(d) ==
  [name |-> d.name, upper |-> FALSE, clean |-> TRUE,
   port |-> IF IsDefaultPort(d.scheme, d.port) THEN NoPort ELSE d.port]
BrowserOrigin(d) == [scheme |-> d.scheme, authority |-> BrowserAuthority(d)]
Dials == [scheme : Schemes, name : Names \ {NoName}, port : Ports]

(* A proxy passes Host on, or spells out the port or the name its own way.     *)
Respelled(d) ==
  {BrowserAuthority(d), [BrowserAuthority(d) EXCEPT !.port = d.port],
   [BrowserAuthority(d) EXCEPT !.upper = TRUE]}

(* A page is loaded from this server: a GET has no Origin, and an old browser  *)
(* only its user agent.                                                        *)
LoadPage(d, h) ==
  /\ up = "up" /\ h \in Respelled(d)
  /\ \E marks \in {{"sec-fetch", "mozilla"}, {"mozilla"}} : Guard(marks, h)
  /\ tab' = [origin |-> BrowserOrigin(d), own |-> TRUE, dial |-> d, host |-> h, ws |-> "none"]
  /\ UNCHANGED <<texts, up, allowed>>

(* A page of some other site, or a sandboxed one with the origin "null".       *)
OtherPage(o) ==
  /\ up = "up"
  /\ tab' = [NoTab EXCEPT !.origin = o]
  /\ UNCHANGED <<texts, up, allowed>>

(* The page opens the WebSocket: at its own address, or wherever it likes.     *)
Handshake(d, h) ==
  /\ up = "up" /\ tab.ws = "none" /\ h \in Respelled(d)
  /\ tab.own => d = tab.dial
  /\ tab' = [tab EXCEPT !.dial = d, !.host = h,
               !.ws = IF Guard({"sec-fetch", "origin", "mozilla"}, h) /\ OriginAllowed(tab.origin, h)
                      THEN "open" ELSE "refused"]
  /\ UNCHANGED <<texts, up, allowed>>

Next ==
  \/ Start
  \/ \E d \in Dials : \E h \in Respelled(d) : LoadPage(d, h) \/ Handshake(d, h)
  \/ \E o \in {BrowserOrigin(d) : d \in Dials} \cup {Null} : OtherPage(o)

Spec == Init /\ [][Next]_vars

----------------------------------------------------------------------------
(* What the flags and addresses mean, whatever their spelling: a port that is  *)
(* left out is the scheme's own.                                               *)

Effective(scheme, a) == <<a.name, IF a.port = NoPort THEN DefaultPort(scheme) ELSE a.port>>
Means(o) == <<o.scheme, Effective(o.scheme, o.authority)>>

Configured(o) == \E t \in Given.origins : Means(t) = Means(o)

Answerable(name) ==
  \/ KindOf[name] \in {"ip", "localhost"}
  \/ \E t \in Given.hosts : t.name = name
  \/ \E t \in Given.origins : t.authority.name = name

(* "The origin the server is reached at is always allowed": a page the server  *)
(* handed out can open its feed, however the Host was spelled on the way.      *)
OwnPageMaySubscribe == tab.own => tab.ws # "refused"

(* "Any other origin has to be configured": a feed is open only to a page of   *)
(* the address that was dialled or of a configured origin.                     *)
OnlyOwnOrConfigured ==
  tab.ws = "open" =>
    \/ Configured(tab.origin)
    \/ Effective(tab.origin.scheme, tab.origin.authority)
         = Effective(tab.origin.scheme, tab.host)

(* "Every other name has to be configured": no browser is answered at a name   *)
(* the operator did not give, and every one is at a name that was given.       *)
AnsweredByName ==
  /\ tab.own \/ tab.ws = "open" => Answerable(tab.dial.name)
  /\ tab.ws = "refused" /\ Configured(tab.origin) => ~Answerable(tab.dial.name)

(* A flag that says something and cannot be read ends the program instead of   *)
(* being left out; a blank one says nothing.                                   *)
EveryFlagCounts ==
  up = "up" => /\ \A t \in Given.hosts : t.bare
               /\ \A o \in Given.origins : \E a \in allowed.origins : Means(a) = Means(o)
============================================================================
