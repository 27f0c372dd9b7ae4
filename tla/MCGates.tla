-------------------------------- MODULE MCGates --------------------------------
(* The gates of the repository, and two statistics of two functions.        *)
EXTENDS Gates

RepoTable == INSTANCE GateTable

MCTableOf == RepoTable!Table
MCNameInside == RepoTable!NamePairs
MCStat == [name : {"insert_impl_with_hash", "rehash_impl"}, count : 1..2]
MCLargest == {s \in MCStat : s.name = "insert_impl_with_hash"}
================================================================================
