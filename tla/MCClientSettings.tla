--------------------------- MODULE MCClientSettings ---------------------------
(* The REST calls are interchangeable.  The slice: in the file that is found at first    *)
(* all connections are enabled, or all are disabled (calls make the mixed lists), and a  *)
(* string that is typed in carries both flags or neither.                                *)
EXTENDS ClientSettings, TLC

Sym == Permutations(Api)

Slice ==
    /\ starts = 0 => Enabled(file.data.conns) \in {{}, DOMAIN file.data.conns}
    /\ \A c \in UserConn \cap DOMAIN mem.conns : mem.conns[c].disabled = mem.conns[c].protected
=============================================================================
