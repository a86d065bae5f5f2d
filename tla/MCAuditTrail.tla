---------------------------- MODULE MCAuditTrail ----------------------------
(* Instances of AuditTrail for TLC: see MCAuditTrail.cfg. *)
EXTENDS AuditTrail, SequencesExt

CONSTANTS NormalDays, CriticalDays

MCDays == "NORMAL" :> NormalDays @@ "CRITICAL" :> CriticalDays

MCRoutes == {"health", "verify.integrity", "recovery.export"}
-----------------------------------------------------------------------------
(* ClientIP against the loop of resolveClientIP, on every header of up to  *)
(* four entries: two clients, a trusted proxy, and 0, which is no address. *)

MCAddresses == {1, 2, 9}
MCTrusted == {9}

ASSUME ClientIPIsTheLoop ==
    \A peer, realIP \in MCAddresses \cup {0}, forwarded \in BoundedSeq(MCAddresses \cup {0}, 4) :
        ClientIP(peer, forwarded, realIP, MCAddresses, MCTrusted)
            = resolveClientIP(peer, forwarded, realIP, MCAddresses, MCTrusted)
=============================================================================
