------------------------------ MODULE MCControl ------------------------------
(* Requests and symmetry for the instances of Control. *)
EXTENDS Control, TLC

CtlLink(db, file, path) ==
  [by |-> "callfwdctl", form |-> "ok", cmd |-> "load", db |-> db, file |-> file, link |-> path]
Ctl(cmd, db, file) ==
  [by |-> "callfwdctl", form |-> "ok", cmd |-> cmd, db |-> db, file |-> file, link |-> Nothing]
Other(form, cmd, db) ==
  [by |-> "other", form |-> form, cmd |-> cmd, db |-> db, file |-> "good", link |-> Nothing]

\* Reloads that succeed, with links or without, are refused, let an exception escape
\* (Geo) or catch it (ACL); every other command; datagrams the control thread gives up on.
MixedRequests ==
  {CtlLink("DNO", "good", "l1"), CtlLink("DNO", "good", "l2"),
   Ctl("load", "US", "good"), Ctl("load", "Geo", "logic_error"), CtlLink("Lerg", "runtime_error", "l2"),
   Ctl("load", "ACL", "logic_error"),
   Ctl("dump", "US", "good"), Ctl("verify", "US", "good"), Ctl("meta", "US", "good"),
   Other("ok", "verify", "US"), Other("ok", "other", "US"), Other("ok", "load", "US"),
   [Other("ok", "verify", "US") EXCEPT !.file = "runtime_error"], Other("badarg", "meta", "US"),
   Other("notjson", "meta", "US"), Other("unnamed", "load", "US")}

DumpRequests == {Ctl("load", "US", "good"), Ctl("dump", "US", "good"), Ctl("meta", "US", "good")}

MCSymmetry == Permutations(Clients)

=============================================================================
