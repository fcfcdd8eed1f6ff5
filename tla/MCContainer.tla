---------------------------- MODULE MCContainer -----------------------------
(* Two containers of one process, the first with up to three compartments. *)
EXTENDS Container, TLC

CONSTANTS k1, k2, c1, c2, c3, t1, t2, w1, w2

MCWorkdir == (k1 :> w1) @@ (k2 :> w2)
MCPermissions == (c1 :> {"fs_read", "fs_write"}) @@ (c2 :> {"fs_read"}) @@ (c3 :> {"fs_read", "fs_exec"})
\* The only edge there can be is from c1 to c2.
MCInbound == (c1 :> {}) @@ (c2 :> {c1}) @@ (c3 :> {})
MCOutbound == (c1 :> {c2}) @@ (c2 :> {}) @@ (c3 :> {})

Config(sandbox, auto_modules, roster, sends) ==
    [sandbox |-> sandbox, auto_modules |-> auto_modules, roster |-> roster, sends |-> sends]
Unused == Config(FALSE, FALSE, {}, 0)
Setup(kernel, thread2, overlap, faults, first, second) ==
    [kernel |-> kernel, thread |-> (k1 :> t1) @@ (k2 :> thread2), overlap |-> overlap,
     faults |-> faults, of |-> (k1 :> first) @@ (k2 :> second)]
Linux(abi) == [platform |-> "linux", abi |-> abi]
Macos == [platform |-> "macos", abi |-> 0]
Other == [platform |-> "other", abi |-> 0]

\* One container that passes messages; two with sandboxes, one after the other; two
\* that call each other; two side by side; and what snapshots and restores can meet.
MCSetups ==
    {Setup(Linux(4), t1, FALSE, {}, Config(TRUE, TRUE, {c1, c2, c3}, 2), Unused)}
    \cup {Setup(v, t1, FALSE, {}, Config(s, m, {c1, c3}, 0), Config(t, TRUE, {c3}, 0)) :
              v \in {Linux(0), Linux(2), Linux(4), Macos, Other}, s, m, t \in BOOLEAN}
    \cup {Setup(Linux(8), t2, FALSE, {}, Config(TRUE, TRUE, {c1}, 0), Config(TRUE, TRUE, {c3}, 0))}
    \cup {Setup(Linux(4), t1, TRUE, {}, Config(s, TRUE, {c1, c3}, 0), Config(TRUE, TRUE, {c1, c2}, 0)) :
              s \in BOOLEAN}
    \cup {Setup(v, t2, TRUE, {}, Config(FALSE, TRUE, {c3}, 0), Config(TRUE, TRUE, {c1}, 0)) :
              v \in {Linux(4), Linux(8), Macos}}
    \cup {Setup(Linux(4), t1, FALSE, f, Config(TRUE, TRUE, {c1, c2}, 1), Unused) :
              f \in {{"snapshot"}, {"restore"}, {"tampering"}}}
MCWatched == {w1, w2, "home"}
=============================================================================
