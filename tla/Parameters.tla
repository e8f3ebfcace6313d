----------------------------- MODULE Parameters -----------------------------
(* The limits on nodes of the free queues (lib/parameters.c), which are u16. *)
LOCAL INSTANCE Integers

ip_fq_node_limit(chunks) ==
  LET ret == ((3 * (chunks + 751)) \div 1127 - 1) % 65536
  IN  IF ret = 2 THEN 3 ELSE ret
main_fq_node_limit(blocks) ==
  LET ret == (IF blocks < 262144 THEN 1 + (blocks - 1) \div 4544
              ELSE IF blocks < 1048576 THEN 116 + (blocks - 261281) \div 2272
              ELSE 512) % 65536
  IN  IF ret = 2 THEN 3 ELSE ret
=============================================================================
