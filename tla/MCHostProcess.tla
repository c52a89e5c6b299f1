---------------------------- MODULE MCHostProcess ----------------------------
\* HostProcess with a kernel, a compiler and three modules that use each other's
\* names, a few pages, and command lines with what can be wrong in one.
EXTENDS HostProcess, TLC

CONSTANTS kernel, compiler, m1, m2, m3

Abs == [etype |-> "abs_addr", name |-> "", val |-> 0]
Main == [etype |-> "main", name |-> "", val |-> 0]
Imp(name) == [etype |-> "import", name |-> name, val |-> 0]
Exp(name, val) == [etype |-> "export", name |-> name, val |-> val]
Heap(name, val) == [etype |-> "heap", name |-> name, val |-> val]

MCPatchTable ==
  (kernel :> <<Abs, Abs, Exp("KMain", 120), Exp("InitRuntime", 110), Main, Imp("HostGetEnv"),
               Imp(""), Imp("DocSave"), Imp("Cmp"), Main, Imp("")>>)
  @@ (compiler :> <<Abs, Imp("KMain"), Imp(""), Exp("Cmp", 220), Main>>)
  @@ (m1 :> <<Abs, Heap("tbl", 400), Exp("CmpAlias", 220), Imp("KMain"), Imp("Lib"),
              Imp(""), Main>>)
  @@ (m2 :> <<Imp("Cmp"), Imp("tbl"), Exp("Lib", 210)>>)
  @@ (m3 :> <<Heap("", 500), Exp("Cmp", 320), Imp("Lib"), Exp("Lib", 310),
              Exp("HostGetEnv", 330)>>)

\* The first word the kernel would have relocated is 16-bit code.
MCBigAddend16 == {<<kernel, 1>>}

MCHostAPI == "HostGetEnv" :> 10
MCJit == "DocSave" :> 20

Drive(syntax, let) == [syntax |-> syntax, let |-> let]
Line(help, errors, specs) == [help |-> help, errors |-> errors, specs |-> specs]
MCCommandLines ==
  {Line(TRUE, TRUE, <<>>), Line(FALSE, TRUE, <<>>), Line(FALSE, FALSE, <<>>),
   Line(FALSE, FALSE, <<Drive(TRUE, "D"), Drive(TRUE, "C")>>),
   Line(FALSE, FALSE, <<Drive(TRUE, "C"), Drive(FALSE, "D")>>),
   Line(FALSE, FALSE, <<Drive(TRUE, "E")>>)}
=============================================================================
