-------------------------- MODULE MCStdioSupervisor ---------------------------
(* Small children for StdioSupervisor: two bytes of stdout with a secret, up
   to three lines of stderr. *)
EXTENDS StdioSupervisor

Prints(err, end) == [length |-> 2, secrets |-> {[first |-> 1, last |-> 2]},
                     err |-> err, terminated |-> end]
MCScripts == {Prints(<<"leak", "plain">>, FALSE),
              Prints(<<"args", "leak", "plain">>, TRUE),
              Prints(<<"alien", "leak">>, FALSE),
              Prints(<<"dns", "env">>, TRUE),
              Prints(<<"warning", "dnsMiss">>, TRUE)}

All(m) == [c \in Channel |-> m]
MCSettings == {All("warn"), All("block"), All("off"),
               [All("warn") EXCEPT !["stderr"] = "block"],
               [All("block") EXCEPT !["stdout"] = "warn", !["stderr"] = "warn"]}
===============================================================================
