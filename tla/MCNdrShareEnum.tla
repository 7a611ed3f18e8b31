---------------------------- MODULE MCNdrShareEnum ----------------------------
EXTENDS NdrShareEnum

\* "IPC$" and "IPC Service" as code points.
MCIPCName == << 73, 80, 67, 36 >>
MCIPCComment == << 73, 80, 67, 32, 83, 101, 114, 118, 105, 99, 101 >>

\* Share names of one to four runes, so that ActualCount is odd and even,
\* one with a non-ASCII BMP rune ("Café"): "D", "Do", "Doc", "Café".
MCShareNames ==
    { MCIPCName, << 68 >>, << 68, 111 >>, << 68, 111, 99 >>, << 67, 97, 102, 233 >> }
\* The same shares with one whose name is a rune outside the BMP, U+1F4C1
\* (a folder emoji), two UTF-16 units.
MCShareNamesAstral == MCShareNames \cup { << 128193 >> }

\* The edges of each width as << low word, high word >>, and constants of
\* msg_basic.go and dcerpc.go: CommandOplockBreak 18, PDUType 19,
\* STATUS_PENDING 0x103, SMB2_FLAGS_REPLAY_OPERATION 0x20000000,
\* StatusLogonFailure 0xc000006d, STATUS_NETWORK_SESSION_EXPIRED 0xc000035c.
MCEnumProbe ==
    { <<0, 0>>, <<1, 0>>, <<18, 0>>, <<19, 0>>, <<127, 0>>, <<128, 0>>,
      <<255, 0>>, <<256, 0>>, <<259, 0>>, <<32768, 0>>, <<65535, 0>>,
      <<0, 1>>, <<0, 8192>>, <<109, 49152>>, <<860, 49152>>, <<65535, 65535>> }

\* A following field with no zero byte.
MCEnumTail == << 171, 205, 239 >>
====
