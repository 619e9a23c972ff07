------------------------------ MODULE Settings ------------------------------
(***************************************************************************)
(* How the settings of a process come about (config.py, config_service.py):*)
(* files are merged in layers, plain values go to the environment, the     *)
(* overlay of the profile comes on top, references are resolved, and the   *)
(* result is checked before it is published.  Two values are followed: the *)
(* name of a runtime table, which belongs to the profile, and the key of   *)
(* the language model.  "ref" is a ${VAR}, "" a value that is not there.   *)
(***************************************************************************)
EXTENDS Naturals

CONSTANT MaxAttempts    \* calls of _initialize_settings

ConstantsAssumption == MaxAttempts \in Nat

VARIABLES
    files,        \* what the files say
    environment,  \* os.environ
    stage,        \* the next step of resolve_application_config
    profile,      \* the argument of the call
    merged,       \* cfg
    published,    \* SETTINGS, "" before
    agentKey,     \* the key in the configuration of the agent
    attempts

vars == <<files, environment, stage, profile, merged, published, agentKey, attempts>>

Supported == {"prod", "test"}
Names == {"", "prod", "test", "ref"}
Keys == {"", "outer", "secret", "config", "ref"}
Values == [table : Names, secret : Keys, key : Keys]

TypeOK ==
    /\ files \in [project : Names, manager : Names \cup {"broken"}, config : Names,
                  overlay : {"none", "less", "more"} \cup Names, secret : Keys, key : Keys]
    /\ environment \in [table : Names, key : Keys]
    /\ stage \in {"call", "merge", "export", "overlay", "resolve", "validate", "load", "done"}
    /\ profile \in {"prod", "test", "dev"} /\ merged \in Values
    /\ published \in {"", "prod", "test"} /\ agentKey \in Keys
    /\ attempts \in 0..MaxAttempts

-----------------------------------------------------------------------------
Or(a, b) == IF a = "" THEN b ELSE a

\* A second call after a successful one and an unknown profile are refused.
Initialize ==
    /\ stage \in {"call", "done"} /\ attempts < MaxAttempts
    /\ attempts' = attempts + 1
    /\ \E p \in {"prod", "test", "dev"} :
         IF published = "" /\ p \in Supported
         THEN profile' = p /\ stage' = "merge"
         ELSE UNCHANGED <<profile, stage>>
    /\ UNCHANGED <<files, environment, merged, published, agentKey>>

Fails == stage' = "call"

\* project.json, session_manager.json, config.json, .secrets.env, the later on top; a
\* broken session_manager.json raises, the others count as empty.
Merge ==
    /\ stage = "merge"
    /\ IF files.manager = "broken" THEN Fails /\ UNCHANGED merged
       ELSE /\ stage' = "export"
            /\ merged' = [table |-> Or(files.config, Or(files.manager, files.project)),
                          secret |-> files.secret, key |-> files.key]
    /\ UNCHANGED <<files, environment, profile, published, agentKey, attempts>>

\* setdefault: what is in the environment stays, and references are left out.
Export ==
    /\ stage = "export" /\ stage' = "overlay"
    /\ environment' = [environment EXCEPT !.table = Or(@, IF merged.table = "ref" THEN "" ELSE merged.table)]
    /\ UNCHANGED <<files, profile, merged, published, agentKey, attempts>>

\* profiles/test.jsonc names all six tables and nothing else.
Overlay ==
    /\ stage = "overlay"
    /\ IF profile = "prod" THEN stage' = "resolve" /\ UNCHANGED merged
       ELSE IF files.overlay \in {"none", "less", "more"} THEN Fails /\ UNCHANGED merged
       ELSE stage' = "resolve" /\ merged' = [merged EXCEPT !.table = files.overlay]
    /\ UNCHANGED <<files, environment, profile, published, agentKey, attempts>>

\* A reference without a value stays as it is.
Resolved(v, env) == IF v = "ref" /\ env # "" THEN env ELSE v
Resolve ==
    /\ stage = "resolve" /\ stage' = "validate"
    /\ merged' = [merged EXCEPT !.table = Resolved(@, environment.table),
                                !.secret = Resolved(@, environment.key),
                                !.key = Resolved(@, environment.key)]
    /\ UNCHANGED <<files, environment, profile, published, agentKey, attempts>>

\* Any runtime table is a table of the profile, if the overlay is one of the profile.
IsolatedBefore(table) == table # ""

\* validate_runtime_isolation: exactly the tables of the profile.
Isolated(table) == table = profile
Plain(v) == IF v = "ref" THEN "" ELSE v
Publish ==
    /\ stage = "validate"
    /\ IF Isolated(merged.table)
       THEN /\ published' = profile /\ stage' = "load"
            /\ environment' = [environment EXCEPT !.key = Or(@, Plain(Or(merged.secret, merged.key)))]
       ELSE Fails /\ UNCHANGED <<published, environment>>
    /\ UNCHANGED <<files, profile, merged, agentKey, attempts>>

\* ConfigService.load: a reference of config.json to a variable that is not set gets a
\* plain key of the settings; then the key of the settings goes over that of the file.
PreResolved ==
    IF files.key = "ref" /\ environment.key = "" THEN Or(Plain(merged.secret), Plain(merged.key))
    ELSE environment.key
Load ==
    /\ stage = "load" /\ stage' = "done"
    /\ environment' = [environment EXCEPT !.key = PreResolved]
    /\ agentKey' = Or(merged.secret, Resolved(files.key, PreResolved))
    /\ UNCHANGED <<files, profile, merged, published, attempts>>

-----------------------------------------------------------------------------
Fresh ==
    /\ stage = "call" /\ profile = "prod" /\ published = "" /\ agentKey = "" /\ attempts = 0
    /\ merged = [table |-> "", secret |-> "", key |-> ""]

NoFiles == [project |-> "prod", manager |-> "", config |-> "", overlay |-> "test",
            secret |-> "secret", key |-> "ref"]

Init ==
    /\ files \in [project : {"prod", "ref"}, manager : {"", "test", "broken"},
                  config : {"", "test", "ref"},
                  overlay : {"none", "less", "more", "prod", "test", "ref"},
                  secret : {"", "secret"}, key : {"", "config", "ref"}]
    /\ environment \in [table : {"", "prod"}, key : {"", "outer"}]
    /\ Fresh

Next ==
    \/ Initialize \/ Merge \/ Export \/ Overlay \/ Resolve \/ Publish \/ Load

Spec == Init /\ [][Next]_vars

-----------------------------------------------------------------------------
\* Whatever the files and the environment say, a process works with the tables of its
\* profile, and the profile does not change any more.
ProfileIsIsolated ==
    published # "" => merged.table = published /\ profile = published

\* The agent gets a key if there is one, of its file or of the settings, and then it is
\* in the environment too.
KeyIsFound ==
    stage = "done" =>
      /\ agentKey = "ref" => files.secret = "" /\ files.key = "ref" /\ environment.key = ""
      /\ files.secret # "" => agentKey # "ref" /\ environment.key # ""

=============================================================================
