------------------------------- MODULE Config -------------------------------
(* How `serve` and `restore-backup` come to their settings: the TOML file is   *)
(* read before the command line and handed over through the environment, then  *)
(* flags, environment and defaults are resolved and the values checked.        *)
EXTENDS Naturals, Sequences

CONSTANTS
  Scalars,     \* values of a single-valued option; "bad" is a file that does not load
  Lists,       \* values of a list option, sequences of entries
  Varied,      \* bound: sets of options; those of one of them are set, no other
  Unset

Single == {"smtp_port", "db_path", "smtp_tls_cert", "smtp_tls_key"}
Listed == "allowed_origins"
Blank == "blank"     \* an entry of a list with nothing in it
Options == Single \cup {Listed}
Known == [serve |-> Options, restore |-> {"db_path"}]

Default(o) == CASE o = "smtp_port" -> "1025" [] o = "db_path" -> "datadir"
                [] o \in {"smtp_tls_cert", "smtp_tls_key"} -> Unset [] o = Listed -> <<>>

ConfigAssumption ==
  /\ Unset \notin Scalars \cup {"datadir", "1025"} /\ Unset \notin Lists \cup {<<>>, <<Blank>>}
  /\ \A v \in Varied : v \subseteq Options

VARIABLES
  broken,    \* the TOML file cannot be read or parsed
  given,     \* source -> option -> value: what the operator set, by source
  env,       \* the process environment
  pc,        \* "load", "parse", "check", "run" or "exit"
  command,   \* "serve" or "restore"
  used,      \* the settings run with
  tls        \* STARTTLS is offered

vars == <<broken, given, env, pc, command, used, tls>>

ValuesOf(o) == (IF o = Listed THEN Lists ELSE Scalars) \cup {Unset}
None == [o \in Options |-> Unset]

(* What one source can say of the options in vary.                             *)
Settings(vary) ==
  {[o \in Options |-> IF o \notin vary THEN Unset ELSE IF o = Listed THEN list ELSE single[o]] :
     single \in [vary \ {Listed} -> Scalars \cup {Unset}], list \in Lists \cup {Unset}}

Init ==
  /\ command \in {"serve", "restore"} /\ broken \in BOOLEAN
  /\ \E vary \in Varied :
       given \in [flag : Settings(vary), env : Settings(vary), file : Settings(vary)]
  /\ env = given.env /\ pc = "load" /\ used = None /\ tls = FALSE

TypeOK ==
  /\ broken \in BOOLEAN /\ pc \in {"load", "parse", "check", "run", "exit"}
  /\ \A o \in Options : o = Listed \/ env[o] \in ValuesOf(o)
  /\ pc = "check" => \A o \in Known[command] \ {"smtp_tls_cert", "smtp_tls_key"} : used[o] # Unset

----------------------------------------------------------------------------

(* v.join(","): an empty list becomes one empty entry.                         *)
Joined(o, v) == IF o = Listed /\ v = <<>> THEN <<Blank>> ELSE v

(* Mutant: the file goes over what is set *)
SetAlways(o) == IF given.file[o] # Unset THEN Joined(o, given.file[o]) ELSE env[o]

SetIfAbsent(o) ==
  IF env[o] = Unset /\ given.file[o] # Unset THEN Joined(o, given.file[o]) ELSE env[o]

(* pre_load_toml_config: a file that does not parse ends the program.          *)
PreLoadTomlConfig ==
  /\ pc = "load"
  /\ IF broken
     THEN pc' = "exit" /\ UNCHANGED env
     ELSE pc' = "parse" /\ env' = [o \in Options |-> SetIfAbsent(o)]
  /\ UNCHANGED <<broken, given, command, used, tls>>

Resolved(o) ==
  IF given.flag[o] # Unset THEN given.flag[o]
  ELSE IF env[o] # Unset THEN env[o] ELSE Default(o)

(* Cli::parse. A number that does not parse is the library's to refuse.        *)
Parse ==
  /\ pc = "parse" /\ pc' = "check"
  /\ used' = [o \in Options |-> IF o \in Known[command] THEN Resolved(o) ELSE Unset]
  /\ UNCHANGED <<broken, given, env, command, tls>>

(* parse_allowed_origins: blank entries are dropped, and of the others only    *)
(* which there are is ever asked.                                              *)
Entries(list) == {list[i] : i \in DOMAIN list} \ {Blank}

(* build_smtp_tls_config: whether STARTTLS is offered, or none when only one   *)
(* of the two is set or one cannot be loaded.                                  *)
BuildSmtpTlsConfig(cert, key) ==
  IF (cert = Unset) # (key = Unset) \/ cert = "bad" \/ key = "bad" THEN {} ELSE {cert # Unset}

Check ==
  /\ pc = "check"
  /\ IF command = "restore" THEN pc' = "run" /\ UNCHANGED <<used, tls>>
     ELSE LET origins == Entries(used[Listed])
              offered == BuildSmtpTlsConfig(used["smtp_tls_cert"], used["smtp_tls_key"])
          IN IF offered = {} \/ "bad" \in origins
             THEN pc' = "exit" /\ UNCHANGED <<used, tls>>
             ELSE /\ pc' = "run"
                  /\ used' = [used EXCEPT ![Listed] = origins]
                  /\ tls' \in offered
  /\ UNCHANGED <<broken, given, env, command>>

Next == PreLoadTomlConfig \/ Parse \/ Check

Spec == Init /\ [][Next]_vars

----------------------------------------------------------------------------

(* The documented order: the first source that sets an option.                 *)
Sources == <<"flag", "env", "file">>
SetBy(o) == {i \in DOMAIN Sources : given[Sources[i]][o] # Unset}
Wanted(o) ==
  IF SetBy(o) = {} THEN Default(o)
  ELSE given[Sources[CHOOSE i \in SetBy(o) : \A j \in SetBy(o) : j >= i]][o]

(* "CLI flags > environment variables > TOML file > defaults", for both        *)
(* commands, so restore-backup finds the database that serve keeps, and an     *)
(* empty list means that nothing was configured.                               *)
Precedence ==
  pc = "run" => \A o \in Known[command] :
    used[o] = IF o = Listed THEN Entries(Wanted(o)) ELSE Wanted(o)

(* The program starts unless a value that counts is not valid, the file does   *)
(* not parse or one half of the TLS pair is missing: "setting only one of the  *)
(* two fails startup".                                                         *)
RefusedForAReason ==
  pc = "exit" =>
    \/ broken
    \/ \E e \in {Wanted("smtp_tls_cert"), Wanted("smtp_tls_key")} : e = "bad"
    \/ (Wanted("smtp_tls_cert") = Unset) # (Wanted("smtp_tls_key") = Unset)
    \/ \E i \in DOMAIN Wanted(Listed) : Wanted(Listed)[i] = "bad"

(* STARTTLS is offered exactly when both halves were given and are good.       *)
TlsAsGiven ==
  pc = "run" /\ command = "serve" =>
    (tls <=> \A o \in {"smtp_tls_cert", "smtp_tls_key"} : Wanted(o) \notin {Unset, "bad"})
============================================================================
