------------------------- MODULE MCRebootHandshake -------------------------
(* Two marks, two tests, all backends that can reboot; nothing out of      *)
(* order, one thing, or everything.                                        *)
EXTENDS RebootHandshake

CONSTANTS m1, m2

MCMarks == {m1, m2}
MCKinds == {"lxc", "lxd", "qemu", "ssh"}
MCPerils == {{}, Peril} \cup {{p} : p \in Peril}
=============================================================================
