----------------------------- MODULE MCSurface -----------------------------
(* Values for TLC of Surface's parameters.                                     *)
EXTENDS Surface, TLC

(* Two valid values and a file that does not load; a list that is empty, one   *)
(* with a blank entry and one with an entry that is not an origin; any two of  *)
(* the options together.                                                       *)
SomeScalars == {"v1", "v2", "bad"}
SomeLists == {<<>>, <<"o1">>, <<"blank", "o2">>, <<"o1", "bad">>}
SomeOptions == {"smtp_port", "db_path", "smtp_tls_cert", "smtp_tls_key", "allowed_origins"}
Pairs == {{o, p} : o, p \in SomeOptions}

(* A name, an address and localhost; flags in capitals, with a port, with a    *)
(* path, with a port that is not one, and blank.                               *)
SomeNames == {"noname", "mail", "other", "localhost", "10.0.0.1"}
SomeKinds == ("mail" :> "dns") @@ ("other" :> "dns") @@ ("localhost" :> "localhost")
               @@ ("10.0.0.1" :> "ip")
Auth(n, p) == [name |-> n, upper |-> FALSE, port |-> p, clean |-> TRUE]
SomeHostTexts == {[name |-> "noname", upper |-> FALSE, bare |-> TRUE],
                  [name |-> "mail", upper |-> TRUE, bare |-> TRUE],
                  [name |-> "mail", upper |-> FALSE, bare |-> FALSE]}
SomeOriginTexts ==
  {[scheme |-> "other", authority |-> Auth("noname", -1)],
   [scheme |-> "https", authority |-> [Auth("mail", 443) EXCEPT !.upper = TRUE]],
   [scheme |-> "http", authority |-> Auth("localhost", 8025)],
   [scheme |-> "http", authority |-> Auth("other", 0)],
   [scheme |-> "http", authority |-> [Auth("mail", -1) EXCEPT !.clean = FALSE]]}

(* Every spelling of --release-host against every body; messages with two      *)
(* recipients, without a sender, with an address no relay takes and with       *)
(* recipients that cannot be read.                                             *)
SomeMail == ("m1" :> [sender |-> "a", recipients |-> <<"b", "c">>])
         @@ ("m2" :> [sender |-> "none", recipients |-> <<"b", "x">>])
         @@ ("m3" :> [sender |-> "x", recipients |-> <<"b">>])
         @@ ("m4" :> [sender |-> "a", recipients |-> Unreadable])
SomeHosts == {<<"relay">>, <<"relay", "465">>, <<"relay", "80">>, <<"relay", "smtp">>}
SomePorts == ("25" :> 25) @@ ("465" :> 465) @@ ("80" :> 80)
SomeBodies ==
  {[host |-> h, port |-> p] : h \in {<<"relay">>, <<"other">>, <<"relay", "smtp">>},
                              p \in {-1, 25, 465, 80}}

(* Values of ?limit=: two refused, one inside a message and one past its end.  *)
SomeLimits == {-1, 0, 2, 4}

(* Three builds: the second changes the page, the third its script's name too. *)
SomeIndexes == ("b1" :> "index1") @@ ("b2" :> "index2") @@ ("b3" :> "index3")
SomeIcons == ("b1" :> "icon1") @@ ("b2" :> "icon1") @@ ("b3" :> "icon2")
SomeScripts == ("index1" :> "assets/a.js") @@ ("index2" :> "assets/b.js")
                 @@ ("index3" :> "assets/b.js")
============================================================================
