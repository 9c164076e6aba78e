----------------------------- MODULE Arguments -----------------------------
(***************************************************************************)
(* The options ParseArgs (internal/curlu/options.go) knows, by their long  *)
(* names, and the forms an argument may have.                              *)
(***************************************************************************)

Flags == {"include", "silent", "show-error", "verbose", "insecure", "globoff",
          "http2-prior-knowledge", "http3", "utls-hello-list", "utls-info",
          "utls-alpn-none", "utls-ext-none", "help", "version"}
Families == {"ipv4", "ipv6"}
Lists == {"header", "resolve", "utls-cipher-append", "utls-version-append", "utls-ext-append"}
Singles == {"connect-timeout", "max-time", "utls-hello", "utls-alpn-hex", "ja4t"}
Valued == Lists \cup Singles

\* Arguments: --name or --name=value; -letters, the last of which may have its
\* value behind it; --; an argument with spaces in it, by its parts; the rest.
NoValue == [kind |-> "none"]
Text(text) == [kind |-> "text", text |-> text]
Long(name, value) == [kind |-> "long", name |-> name, value |-> value]
Short(letters, value) == [kind |-> "short", letters |-> letters, value |-> value]
DashDash == [kind |-> "--"]
Combined(list) == [kind |-> "combined", args |-> list]
=============================================================================
