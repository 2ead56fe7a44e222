--------------------------- MODULE MCCommandLine ----------------------------
(* Command lines for TLC: every line of up to four words, and every line   *)
(* that follows the usage with up to three options.                        *)
EXTENDS CommandLine

MCDashed    == {"-t", "-i", "-b", "-p", "-r", "-x"}
MCPorts     == {"ttyS0"}
MCBaudrates == {"B300", "B19200"}
MCFiles     == {"dir/gif"}
MCbasename  == [f \in MCFiles |-> "gif"]
MCWords     == MCDashed \cup MCPorts \cup {"B300"} \cup MCFiles \cup {"2", "8"}

\* A word that is no number counts as 0, and 8 is out of everything's range.
MCatoi == [w \in MCWords \cup {"netlink", "B19200"} |-> CASE w = "2" -> 2 [] w = "8" -> 7 [] OTHER -> 0]

MCOptions == {<<"-i">>} \cup ({"-t"} \X {"dir/gif", "2"}) \cup ({"-b"} \X {"B300", "2"})
               \cup ({"-p", "-r"} \X {"2", "8", "dir/gif"})

MCLines ==
  { <<"netlink">> \o words : words \in UNION {[1..n -> MCWords] : n \in 0..3} } \cup
  { <<"netlink">> \o FlattenSeq(options) \o <<"ttyS0">> :
      options \in UNION {[1..n -> MCOptions] : n \in 0..3} }
=============================================================================
