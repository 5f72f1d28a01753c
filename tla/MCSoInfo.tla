------------------------------ MODULE MCSoInfo ------------------------------
EXTENDS SoInfo

CONSTANTS libart, linker64, head, somain, getCodeItem, so1

MCPathOf == (head :> linker64) @@ (somain :> linker64) @@ (getCodeItem :> libart)
MCWanted == [dump |-> {head, getCodeItem}, checkvpn |-> {head, somain}, pine |-> {getCodeItem}]
MCHome == (linker64 :> 2) @@ (libart :> 3)
MCWalkers == <<"load", "t1", "t2">>

\* The linker's functions are in .symtab only; an entry of .dynsym without a
\* value comes before the one of .symtab in ElfImg and after it elsewhere.
Table(h, s, c) == (head :> h) @@ (somain :> s) @@ (getCodeItem :> c)
MCImage ==
  (linker64 :> [vaddr |-> 0, symtab |-> Table(3, 4, NoEntry), dynsym |-> Table(NoEntry, NoEntry, NoEntry)])
  @@ (libart :> [vaddr |-> 2, symtab |-> Table(NoEntry, NoEntry, 5), dynsym |-> Table(NoEntry, NoEntry, 5)])
=============================================================================
