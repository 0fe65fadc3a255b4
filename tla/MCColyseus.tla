----------------------------- MODULE MCColyseus -----------------------------
EXTENDS Colyseus, TLC
MCType == {"Player", "Projectile"}
MCInput == {{}, {"Shoot"}, {"Die"}}
Symmetry == Permutations(Server) \cup Permutations(Guid) \cup Permutations(Task)
=============================================================================
