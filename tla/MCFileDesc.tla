---------------------------- MODULE MCFileDesc ----------------------------
(* Small pools of file descriptors.                                        *)
EXTENDS FileDesc

CONSTANTS null, uart, fs, nodev

\* The devices of this image, reached by their exact names, and a
\* filesystem, of which this image has none.
AllNames == {"/dev/null", "/dev/jtag_uart", "/fs/file", "other"}
NameLookup == [name \in AllNames |->
                 CASE name = "/dev/null" -> null
                   [] name = "/dev/jtag_uart" -> uart
                   [] name = "/fs/file" -> fs
                   [] OTHER -> nodev]

\* As linked: stdout, stdin and stderr are the UART.
ImageStdio == <<"/dev/jtag_uart", "/dev/jtag_uart", "/dev/jtag_uart">>

\* Three unlike streams: a device, a file and nothing at all.
MixedStdio == <<"/dev/jtag_uart", "/fs/file", "other">>
===========================================================================
