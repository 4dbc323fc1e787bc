---------------------------- MODULE MCBusyboxInit ----------------------------
(* The platform's inittab, and an edited one: the console is gone, the     *)
(* shutdown commands changed places, a restart entry is new.               *)
EXTENDS BusyboxInit

Line(t, c) == [type |-> t, cmd |-> c]

PlatformInittab ==
    << Line("sysinit", "rcS"), Line("once", "banner"), Line("askfirst", "login"),
       Line("ctrlaltdel", "poweroff"), Line("shutdown", "umount"), Line("shutdown", "swapoff") >>

EditedInittab ==
    << Line("sysinit", "rcS"), Line("shutdown", "swapoff"), Line("wait", "mdev"),
       Line("shutdown", "umount"), Line("restart", "init") >>

MCInittabs == {PlatformInittab, EditedInittab}
MCCommands == {"rcS", "banner", "login", "poweroff", "umount", "swapoff", "init", "mdev"}
=============================================================================
