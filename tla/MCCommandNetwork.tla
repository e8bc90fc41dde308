-------------------------- MODULE MCCommandNetwork ---------------------------
EXTENDS CommandNetwork, TLC

\* Every relay hears the PC node and the other relays; the car hears only them.
FullLinks == ({PC} \X Relays) \cup {e \in Relays \X Relays : e[1] # e[2]}
             \cup (Relays \X {CAR})

\* The relays differ in nothing; the run checks invariants only.
RelaySymmetry == Permutations(Relays)

\* The network is as the theorem about QuietMeansObeyed wants it.
ASSUME CommandReachesCarHolds == CommandReachesCar
=============================================================================
