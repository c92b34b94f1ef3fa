----------------------------- MODULE MCInitFlow -----------------------------
(* Small machines for InitFlow: every check passes or fails. *)
EXTENDS InitFlow

M(wsl, feature, virt, config) ==
  [build |-> 19044, wsl |-> wsl, feature |-> feature, virt |-> virt, config |-> config]

MCMachines ==
  { M("old", "present", "yes", "bad"),       \* update, then repair .wslconfig
    M("current", "present", "yes", "bad"),   \* repair .wslconfig only
    M("current", "absent", "yes", "good"),   \* enable the features, reboot
    M("current", "statusFails", "no", "good"),
    M("current", "present", "unprobed", "skipped"),
    [M("current", "present", "yes", "good") EXCEPT !.build = 19041] }

MCBadConfig == { M("current", "present", "yes", "bad") }
=============================================================================
