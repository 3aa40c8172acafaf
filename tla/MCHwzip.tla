------------------------------ MODULE MCHwzip ------------------------------
(* Hwzip with three names, two contents and one archive of another program: *)
(* it has a directory, a name twice, a damaged file in a directory, which is *)
(* skipped, and a last member with a wrong checksum.  Archives that extract  *)
(* to the end come from create.                                              *)
EXTENDS Hwzip

Member(name, is_dir, damage, content) ==
  [name |-> name, is_dir |-> is_dir, damage |-> damage, body |-> DataFile(content)]

MCSize == [c \in {"x", "y"} |-> IF c = "x" THEN 1 ELSE 2]

MCForeign ==
  { << Member("z", TRUE, "none", "x"), Member("a", FALSE, "none", "x"),
       Member("d/a", FALSE, "deflate", "y"), Member("a", FALSE, "none", "y"),
       Member("z", FALSE, "crc", "x") >> }
=============================================================================
