---------------------------- MODULE MCHandshake ----------------------------
(* The client runs release v1 and knows PSK "k"; everything it can disagree *)
(* about with the server occurs, one or several at a time.                 *)
EXTENDS Handshake

MCVersions == {"v1", "v2"}
MCIds == {"alice", "bob"}
Party(psk, version, id, expected) ==
    [psk |-> psk, version |-> version, id |-> id, expected |-> expected]

MCConfigs ==
    {[s \in Side |-> IF s = "client" THEN Party("k", "v1", "alice", e)
                                     ELSE Party(k, v, i, f)] :
        e \in MCIds, k \in {"k", "l"}, v \in MCVersions,
        i \in MCIds, f \in MCIds}
    \cup {[s \in Side |-> IF s = r THEN bad ELSE Party("k", "v1", "alice", "alice")] :
            r \in Side, bad \in {Party(NoPsk, "v1", "alice", "alice"),
                                 Party("k", "v1", BadIdentity, "alice"),
                                 Party("k", "v1", "alice", BadIdentity)}}
=============================================================================
