-------------------------- MODULE MCUserRepository --------------------------
(* UserRepository for TLC: the requests that the runs choose from.  The     *)
(* second page starts behind the first one, and an offset below zero and a  *)
(* limit of zero fall back to the defaults.                                 *)
EXTENDS UserRepository, TLC

CONSTANTS alice, bob

MCNames == {alice, bob, EmptyName}

Create(names) == [op : {"create"}, name : names]
Get(ids) == [op : {"get"}, id : ids]
List(limits, offsets) == [op : {"list"}, limit : limits, offset : offsets]
Stats == [op : {"stats"}]

UserRequests == Create(MCNames) \cup Get(0..MaxUsers)
ReadRequests == Create({alice}) \cup Get({1}) \cup List({1}, {-1, 1})
ListRequests == Create({alice}) \cup List({1}, {-1, 1})
StatsRequests == Create({alice}) \cup Stats
CacheRequests == StatsRequests \cup Get({0, 1}) \cup List({0}, {0})
PagingRequests == StatsRequests \cup List({0, 1}, {-1, 1})

Symmetry == Permutations(Threads) \cup Permutations(Conns)
=============================================================================
