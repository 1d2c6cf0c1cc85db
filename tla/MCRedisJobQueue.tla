-------------------------- MODULE MCRedisJobQueue --------------------------
(* Two worker processes over one Redis, two jobs of different priority.    *)
EXTENDS RedisJobQueue, TLC

CONSTANTS p1, p2, j1, j2

MCPriority == j1 :> 1 @@ j2 :> 10
MCMaxAttempts == j1 :> 2 @@ j2 :> 2
MCUndecodable == {<<p1, j2>>}
=============================================================================
