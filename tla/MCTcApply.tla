------------------------------ MODULE MCTcApply ------------------------------
(* Two writers, accounts that change between leader and follower, and rows   *)
(* left by hand.                                                             *)
EXTENDS TcApply
CONSTANTS a, b, c, x, loop, once
F(y, s) == [acct |-> y, cfg |-> s]
G(l, fs) == [leader |-> l, fols |-> fs]
MCPayloads == {
  {G(a, {F(b, 1)})},
  {G(c, {F(b, 2)})},                       \* c leads, another scale
  {G(a, {F(b, 1)}), G(b, {F(c, 1)})},      \* malformed: b on both sides
  {G(a, {F(x, 1)})},                       \* x is not connected
  {} }                                     \* unmap everything
Bare(l, f) == [groups |-> {g \in Gid : l[g] # None}, leader |-> l, fol |-> f]
MCFirstRows == {
  Bare([g \in Gid |-> IF g = 1 THEN a ELSE None],
       [y \in Acct |-> IF y \in {b, c} THEN [gid |-> 1, cfg |-> 1] ELSE None]),
  [groups |-> {1}, leader |-> [g \in Gid |-> None], fol |-> [y \in Acct |-> None]] }
==============================================================================
