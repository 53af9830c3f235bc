------------------------------- MODULE Config -------------------------------
(***************************************************************************)
(* How the settings of a run are put together: Config::load and normalize  *)
(* (crates/atem-proxy/src/config.rs) and load_cfg (main.rs).  Only the     *)
(* settings that depend on one another are kept; addresses and log filters *)
(* are copied through.                                                     *)
(***************************************************************************)

LockMode  == {"Deny", "SingleOwner"}
Settings  == [softatem : BOOLEAN, mode : LockMode, media : BOOLEAN,
              legacy_mdns : BOOLEAN, mdns : BOOLEAN]

\* An option of the command line or the environment: absent or a value.
Absent   == "absent"
Opt      == {"absent", "true", "false"}
Given(o) == o # Absent
IsTrue(o) == o = "true"

config_default == [softatem |-> FALSE, mode |-> "Deny", media |-> FALSE,
                   legacy_mdns |-> FALSE, mdns |-> FALSE]

\* The legacy flag and the profile switch features on, never off.
normalize(cfg) ==
    [cfg EXCEPT !.mode  = IF cfg.softatem THEN "SingleOwner" ELSE @,
                !.media = @ \/ cfg.softatem,
                !.mdns  = @ \/ cfg.legacy_mdns \/ cfg.softatem]

Override(old, o) == IF Given(o) THEN IsTrue(o) ELSE old

\* The file replaces the defaults as a whole; the environment and then the
\* arguments go over it.
load(file, env, mdns_arg) ==
    normalize([file EXCEPT !.legacy_mdns = Override(Override(@, env.mdns),
                                                    mdns_arg),
                           !.softatem    = Override(@, env.softatem)])

MutNormalizeOnce(file, env, cli) ==
    [load(file, env, cli.mdns)
        EXCEPT !.softatem = Override(@, cli.softatem)]

\* clap fills an option that was not given from the environment, so cli is
\* what remains after that; the profile of the command line comes last.
load_cfg(file, env, cli) ==
    LET arg(name) == IF Given(cli[name]) THEN cli[name] ELSE env[name]
        cfg       == load(file, env, arg("mdns"))
    IN  IF Given(arg("softatem"))
        THEN normalize([cfg EXCEPT !.softatem = IsTrue(arg("softatem"))])
        ELSE cfg
=============================================================================
