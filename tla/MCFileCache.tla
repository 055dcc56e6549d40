---------------------------- MODULE MCFileCache ----------------------------
(* Instantiates FileCache for TLC: two small objects of different encoded *)
(* lengths (11 and 10 bytes) and one replacement meta.                    *)
EXTENDS FileCache, TLC

CONSTANTS c1, c2, k1

MCClientsOne == {c1}
MCClientsTwo == {c1, c2}

\* meta = (b"\x01", b""), body = b"\x02\x02"
MCObj1 == [meta |-> <<<<1>>, <<>>>>, body |-> <<2, 2>>]
\* meta = (b"\x03", b"\x04"), body = b""
MCObj2 == [meta |-> <<<<3>>, <<4>>>>, body |-> <<>>]
MCObjects == {MCObj1, MCObj2}
MCMetas == {<<<<5>>, <<>>>>}

MCOpsAll == {"get", "put", "update", "purge"}
MCOpsGetPut == {"get", "put"}
MCFaultsNone == {}
MCFaultsAll == {"crash", "write_error"}
=============================================================================
