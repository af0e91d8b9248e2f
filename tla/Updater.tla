------------------------------ MODULE Updater -------------------------------
(***************************************************************************)
(* What the updaters of src/pkgs/therock/scripts have in common: one runs  *)
(* at a time, as a child process, and ends with success or for a reason.   *)
(* A file is rewritten in place (Path.write_text), so a process killed     *)
(* while it writes leaves the file torn.                                   *)
(***************************************************************************)
EXTENDS Versions, Functions, TLC

CONSTANTS None, Torn

VARIABLES
    script,    \* the running updater with its local variables, or NoScript
    exit       \* how the last one ended, None while one runs

Reasons == {"ok", "network", "killed", "unreadable", "usage",
            "noVersion", "noDistribution", "unresolved", "evaluation", "missingInput"}

NoScript == [name |-> None]

\* sources[key] = value, in a file's dictionary.
Put(sources, key, value) ==
    [k \in {key} \cup DOMAIN sources |-> IF k = key THEN value ELSE sources[k]]

Launch(call) == script = NoScript /\ script' = call /\ exit' = None
Running(name, at) == script # NoScript /\ script.name = name /\ script.at = at
Proceeds(locals) == script' = locals /\ UNCHANGED exit
Ends(reason) == script' = NoScript /\ exit' = reason

\* An HTTP request, git or nix failed, after its retries where it has some,
\* and the exception ended the script.
NetworkFails == Ends("network")

\* path.write_text(contents) for `file', after which the script goes on as
\* `done' says; or it is killed with the file already truncated.
Writes(file, contents, done) ==
    \/ file' = contents /\ done
    \/ file' = Torn /\ Ends("killed")
=============================================================================
