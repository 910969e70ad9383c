--------------------------- MODULE MCPalletCache ---------------------------
(***************************************************************************)
(* Two complete pallets, one of them with an inline command line, a pallet *)
(* without an initramfs, and an image that is no pallet; a run takes some  *)
(* of them as its Digest.                                                  *)
(***************************************************************************)
EXTENDS PalletCache

CONSTANTS d1, d2, d3, d4

MCLayers ==
  [d \in Digest |->
     CASE d = d1 -> <<"vmlinuz", "initramfs.img">>
       [] d = d2 -> <<"cmdline", "vmlinuz", "initramfs.img">>
       [] d = d3 -> <<"vmlinuz">>
       [] d = d4 -> <<>>]

MCInline == [d \in Digest |-> IF d = d2 THEN {"cmdline"} ELSE {}]

\* A wrong config blob has a command line or a kernel of its own.
MCOther == {{"cmdline"}, {"vmlinuz"}}
=============================================================================
