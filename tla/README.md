# Verification of tp-2023-1c-Black-Suits in TLA+

The repository is a simulated operating system: five C programs (kernel, CPU,
memoria, filesystem and consolas) that talk over TCP.  This directory holds
TLA+ models of its core, the TLC configurations that check them on small
instances, and theorems that TLAPS proves for every instance.  Names follow
the source, so they are in Spanish.

## 1. Inventory

| Component | State | Operations | Talks to | Hard part | Correct when |
|---|---|---|---|---|---|
| Kernel, schedulers (`kernel/src/core.c`, `comunicacion.c`) | lists NEW, READY, EXIT, `RUNNING`, `PROCESOS_EN_MEMORIA`; `GRADO_ACTUAL_MPROG`; three semaphores, six mutexes | admission, choice, dispatch, YIELD, IO, end | consolas (a thread each), CPU, memoria | four kinds of thread, semaphores waited for inside mutexes, a mutex handed from one thread to another | each process in one place; tokens equal elements; degree respected; every process ends |
| Kernel, resources (`core.c` 139-151, 192-261) | instances and queue per resource; assignments per process | WAIT, SIGNAL, release at the end | schedulers | a release loop over a list its body changes | no instance lost or held twice; a process waits only when there is none |
| Kernel, segments (`core.c` 263-369) | segment table per process | create, delete, compact, new bases | memoria, file threads | stale bases; compaction against file operations | tables agree with memoria |
| Kernel, open files (`core.c` 389-516) | `tabla_archivos` with a queue per file; open files per process | open, close, seek | filesystem | processes that end with files open | one owner per file; no one waits for nobody |
| Kernel, file operations (`core.c` 518-662) | a detached thread per operation, `mutex_compactacion` | truncate, read, write | filesystem over one shared socket | answers taken by the wrong thread | each gets its answer; no compaction meanwhile |
| Memoria (`memoria/src`) | list of holes, list of segments, free total | create, free, compact, read, write | kernel, CPU, filesystem | consolidation of holes, exact fits | holes and segments partition memory |
| Filesystem (`filesystem/src`) | bitmap, blocks, FCBs, each also a file | open, create, truncate, read, write | kernel, memoria | direct and indirect blocks; boundaries; three files written one after another | each block free or in one file |
| CPU (`cpu/src`) | registers, PC, segment list of the running process | fetch, decode, execute; MMU; context | kernel, memoria | resuming after a call; addresses out of a segment | each instruction executed once; no access out of a segment |
| Consola, shared, configuration | - | parse and send a script; socket wrappers | kernel | none: sequential I/O | - |

Interaction: a consola sends a program; a kernel thread puts it in NEW; the
long-term thread asks memoria for its segment table and puts it in READY; the
short-term thread sends its context to the CPU, receives it back with a system
call, and serves the call, perhaps through memoria, the filesystem or a
detached thread that later puts the process back in READY.

The hazards of this code, each at its line with the properties that watch
it, are listed in `PROJECT.json`.

## 2. Modules

| Module | Models | Extends / refines |
|---|---|---|
| `Planificador` | schedulers, consoles, I/O | |
| `CicloDeVida` | abstract: states of a process and their transitions | |
| `PlanificadorCiclo` | refinement mapping to `CicloDeVida` | `Planificador` |
| `Recursos` | WAIT, SIGNAL, release | |
| `TablaArchivos` | F_OPEN, F_CLOSE, F_SEEK and the queue of each file, beside the resources | extends `Recursos`, refines `ArchivosEnTurno` |
| `ArchivosEnTurno` | abstract: a lock and a position per file, granted in order | |
| `Memoria` | allocator together with the kernel's tables | refines `MemoriaAbstracta` |
| `MemoriaAbstracta` | abstract: each segment a run of bytes of its own | |
| `SistemaArchivos` | FCBs, bitmap, blocks, stops between writes | refines `ArchivosAbstractos` |
| `ArchivosAbstractos` | abstract: each file a sequence of blocks of its own | |
| `Conversaciones` | file threads, compaction and filesystem over one connection | |
| `Instrucciones` | instructions, cells and addresses | |
| `Contexto` | the layout of a context in a message | extends `Instrucciones` |
| `Cpu` | the cycle of the CPU, its MMU, the cells of memoria, the system calls about segments and the threads of F_READ and F_WRITE | extends `Contexto`, refines `ProcesosAislados` |
| `ProcesosAislados` | abstract: each program alone on registers and segments of its own | extends `Instrucciones` |
| `MC*` | instances for TLC | the module of that name; `MCRecursos` that of `TablaArchivos` |
| `SecuenciasPruebas` | lemmas about lists, minima, positions and folds | the library's theorem modules |
| `PlanificadorPruebas` | theorems about the schedulers | `PlanificadorCiclo`, `SecuenciasPruebas` |
| `RecursosPruebas` | theorems about the resources | `Recursos`, `SecuenciasPruebas` |
| `TablaArchivosPruebas` | theorems about resources and files together | `TablaArchivos`, `RecursosPruebas` |
| `MemoriaPruebas` | what each function of the allocator does to its lists; the theorems | `Memoria`, `SecuenciasPruebas` |
| `SistemaArchivosPruebas` | what each function of the filesystem does to bitmap and blocks; the theorems | `SistemaArchivos`, `SecuenciasPruebas` |
| `ConversacionesPruebas` | theorems about the shared connection | `Conversaciones` |
| `CpuPruebas` | theorems about contexts, addresses and crashes of the CPU | `Cpu`, `SecuenciasPruebas` |

Definitions introduced as "Mutant of X" are faults that no specification
uses; they serve to confirm that each property can tell a broken X.

### Planificador

One variable per global of the kernel, plus the program counter of each
thread (`largo`, `corto`, `consola[p]`, `hilo[p]`) and its locals (`new_pcb`,
`r_pcb`).  There is an action per call that may block: `sem_wait`,
`pthread_mutex_lock`.  A mutex held across such a call (`mutex_NEW`,
`mutex_mp`, `mutex_RUNNING`) has an owner; a critical section that blocks on
nothing is one step taken when the mutex is free.  `planificacion_largo_plazo`
is `LargoSemNEW` ... `LargoEncola`; `planificacion_corto_plazo` is
`CortoInicio` ... `CortoDespacha`, `CpuLlamada`, `CpuFin` and one group of
actions per system call; `terminar_proceso` is `FinExit` ... `FinResultado`;
`bloquear_proceso_io` is `HiloToma` and `HiloEncola`.  Response ratios depend
on clock times, so HRRN may take any process of READY.  The CPU is its answer:
any system call, in any order.

### Recursos

Only the short-term thread runs this code, so each call is one step, except the
release at the end of a process: its two loops are taken apart into
iterations (`FinExterno`, `FinInterno`, `FinSiguiente`, `FinListo`) because
they read a list that their own body shortens.  A process may SIGNAL a resource it
never asked for, as line 17 of `consola/scripts/FS_1` does: `signal_recurso` does
not look, adds an instance and wakes who waits.  The history variable `regalos` counts
those SIGNALs, and `Exclusion` and `Conservacion` add them to the configuration.

### TablaArchivos

`SpecTabla` interleaves the steps of `Recursos` with the opens, closes and
seeks, because a process holds resources and files together and waits for
either.  `AbrirLibre` and `AbrirTomado` are the two branches of F_OPEN: in both
the file is noted in the process's list first.  `Entregar` is the second half
of `cerrar_archivo`.  `FinConArchivos` is the end of `terminar_proceso`, which
destroys the list of the process and leaves its entries in the table (the TODO
of line 167); the history variable `sin_cerrar` says of which files.
`AtascoExplicado` names the only ways in which processes wait with nobody
left to run: a circle of waits among resources and files, a process that waits
for itself included; something an ended process never gave back; and a resource of
which the configuration has no instance.  The third was not there until the proof of
section 5 needed one instance at least; the bounded run now has such a resource.

### Memoria

A request of the short-term thread, its handler in memoria (under
`mutex_memoria`) and the update of the kernel's table are one step, because the
thread waits for the answer; a creation that needs a compaction is three
(`Crear`, `Compactar`, `Reintentar`).  The lists are sequences kept in the
order the code keeps them; the three search loops are translated as they are.
`IDS` are the segments of a table but for segment 0, `CANT_SEGMENTOS` less one; the
end of a process (`Liberado`) frees its active segments in the order of its table.
The contents of segments are in `Cpu`, and segment 0, which never moves, is left
out.  Sizes are positive, an active segment is not created again and an inactive
one is not deleted.

### SistemaArchivos

A request is one step: the kernel is the only client and requests are served in
order.  Pointers are block numbers.  What is written in a block is abstracted
to which file and position it was written for, so that the refinement can tell
a file's own data from another's.  `Crecer` and `Achicar` are the two halves of
`truncar_archivo`; they fold the allocation functions of `utils.c`, including
their silence when no block is free.  `Copias` is the loop of `eferrid` and
`eferrait`, as the sequence of copies it makes.

Bitmap, blocks and FCBs are kept in memory and in three kinds of file, which the
functions that change the first rewrite at once: between two requests they are the
same.  Each write of a truncation adds the image it leaves to `escrito`, and
`CorteTruncar` is a stop after any of them followed by a start, which reads the
new bitmap and blocks and the old FCB, written last.  `CorteFcb` is a stop between
the `fopen` "w" of the FCB and its `fclose`, and `CorteCrear` the same in
`crear_archivo`.  `eferrait` empties the whole of `bloques.dat` with `fopen` "w" and
writes it again, so a stop before that `fclose` (`CorteEscribir`) leaves the first
blocks and zeros for the rest, of every file.

Nobody compares a position with the size of a file.  `Escribir` takes any position
and amount: `Destino` follows the pointer that is there, a zero (block 0) past the
pointers of the file, and any block where what would be a pointer is data.

The history variable `disco` says what has become of the disk: "exacto"; "pierde"
when blocks are occupied that nobody refers to, after a stop in a growth, after a file
shrunk to one block takes a second indirect block, or when that block was block 0, of
which the FCB keeps nothing; and the ends of `Finales`, after which the disk is not
followed: "corte" (a stop in a shrink or in the write of an FCB), "lleno" (no free
block), "cero" (block 0 of another file freed), "afuera" (a write past the file) and
"vaciado" (a stop while `bloques.dat` is written again).  In these the FCBs
lead to blocks that are free, emptied or another file's.

### Conversaciones

The threads that use `socket_filesystem`, the two queues of that connection,
the filesystem with its step in memoria, and `mutex_compactacion`.  A `recv`
takes the next answer, whoever it is for; the history variable `cruzada` says
whether a thread has taken another's.  A lock and the send that follows it, and
a receive with the unlock and the `encolar_proceso` that follow it, are one
step each.  READY is a set.  Each program has its own file, so opening never
finds it in the table.  `HiloRecibe` stands for the end of the three thread
functions, 543-552, 595-602 and 651-661 of `core.c`.  A truncate, read or write of a
file without FCB kills the filesystem (a NULL `t_config`) and the model stops.

### Cpu

A cell stands for four bytes, the width of the narrowest register, so a register
of four bytes is one cell and one of eight is two.  A context is a sequence of slots
written and read by position, as the code does with offsets: `CambiarContexto`
and `DeserializarRegistros` are the parts of the code where a wrong offset would
give a process what belongs to another.  `CpuSet`, `CpuMovIn`, `CpuMovOut`,
`CpuLlamada` and `CpuCae` are one turn of the cycle: fetch, decode, the MMU,
execution and, at the end of the list, the implicit EXIT.  The kernel's side
(`Kernel*`) stores the context and serves the call.

Which process runs next, and which hole takes a segment, are any: `Planificador`
and `Memoria` decide that.  F_READ and F_WRITE start a thread (`hilo[p]`) with
the physical address the CPU computed; it locks `mutex_compactacion`
(`HiloToma`) and transfers (`HiloOpera`).  Its fields `logica` and `vieja` are
history: the address in the program, and that a compaction came before the
lock.  The transfer is to the address the thread has, whoever's the cells are
by then.  An address outside the memory, the -1 of the MMU among them, makes
memoria fall (`MemoriaCae`): nothing that needs an answer of it (`Atiende`)
goes on.  What F_WRITE takes to the file is not kept, as the contents of
files are in `SistemaArchivos`.

`Compactar` moves every segment down.  The code uses `memcpy` also where a segment
moves by less than its size, which the C standard leaves undefined; the model takes
either of the two results the library's copies give (`Origen`): from the first cell
on, which moves it whole, or from the last one back, which leaves a part of it
changed.

I/O, WAIT, SIGNAL and the other calls about files, which
neither registers nor segments tell apart, are the YIELD.  `INSTRUCCIONES` is what
a program may hold: a register the CPU knows, and creations and releases of
segments of the table other than segment 0, of a size greater than 0.

## 3. Runs

| Run | Shows | Bounds |
|---|---|---|
| `MCPlanificador` | lists, tokens, degree, hand-over of the I/O thread; refinement of `CicloDeVida`; every process ends unless the two schedulers wait for each other | 3 processes, degree 2, 2 calls each, HRRN, fairness |
| `MCPlanificador_atasco` | violated: a process stays in NEW for ever | 2 processes, degree 1, fairness |
| `MCPlanificador_lista` | violated: an admitted process not in `PROCESOS_EN_MEMORIA` | 3 processes, degree 2 |
| `MCMemoria` | partition, consolidation, complete search, with WORST a largest hole, tables in agreement, one compaction is enough; refinement of `MemoriaAbstracta` | 8 free bytes, 2 processes with 2 segments, sizes 1, 2, 3, 5, three algorithms |
| `MCMemoria_best` | violated: BEST takes a smallest hole | as above, BEST |
| `MCRecursos` | exclusion but for SIGNALs without a WAIT, exact queues, one wait at a time, one owner per file; what a stall and a NULL in the release loop come from; refinement of `ArchivosEnTurno` | 2 resources of 1 instance and 1 of none, 2 files, positions 0 and 1, 3 processes, 3 calls |
| `MCRecursos_libera` | violated: resources come back at the end of a process | 2 resources, no files, 2 calls |
| `MCSistemaArchivos` | which blocks can be lost and which requests and stops touch another file, and that no others do; copies byte for byte; refinement of `ArchivosAbstractos` | 2 files, 6 blocks of 8 bytes, sizes 0, 8, 24, positions and amounts 0, 1, 8, 23, stops after any write |
| `MCSistemaArchivos_directo` | violated: the direct block of a file is its own | same |
| `MCConversaciones` | requests match waiting threads; everybody gets an answer; without crossed answers compaction waits for files, opened files exist and no process is lost | 3 processes, 2 calls each, fairness |
| `MCConversaciones_cruce` | violated: compaction waits for file operations | same |
| `MCCpu` | addresses of file operations stay good unless there was a compaction before the lock; when the CPU and memoria fall; refinement of `ProcesosAislados` but for transfers to old addresses and backward copies | 3 processes, each with any of 6 programs, 8 cells, segments of up to 4, 3 segments, registers of 1 and 2 cells |

Why the bounds are enough.  *Planificador*: one process on the CPU, one blocked
and one in NEW with the degree full is every kind of competition the threads
have; two calls each let a process block, come back and block or end.
*Memoria*: four segments give holes below, between and above, exact fits and
fits by one byte, a search that fails with enough free bytes in total, and a
compaction that moves some segments and leaves others.  *Recursos*: three
processes make a queue of two and a circle of waits; three resources are what
the release loop needs to fall on a NULL, the third of them from a SIGNAL of another
process, since one has no instance.  Three calls let a process that has nothing SIGNAL and
with that a second one in.  With two files a process can wait for one with the other
open, and be handed one at a position of its own.
*SistemaArchivos*: two pointers per indirect block and sizes of none, one and three
blocks take a file from each of them to each other, with both values of
`bloques_actuales == 1` at line 83 and both of `bloques_necesarios == 0` at
line 105.  A file of three blocks takes four of the six and one of one block that
has kept its indirect block the other two, so that one block lost is enough for
a growth to find the disk full.  (`bitmap.dat` is written in whole bytes, so that a
real `BLOCK_COUNT` is a multiple of 8; nothing in the functions depends on it.)
Writes are inside the file, up to its end and past it, in one block, two or three, and
start and end on, before and after the edges of blocks, where the arithmetic of the
copies can go wrong.
*Conversaciones*: two file threads wait while the short-term thread opens a
file or compacts for the third process.  *Cpu*: the programs among them use
every instruction the model tells apart, the last cell of a segment and the
first past it, segment 0, which all share, and an address past the table;
they end in an EXIT, in an unknown name, in a system call and without any.  Eight
cells are few enough for creations to need a compaction and to run out of memory
while file threads of other processes hold addresses.

Deadlock is not checked where the system really stops: consoles send a finite
number of processes and the threads then wait for more; programs end; a disk
in one of `Finales` is not followed.  `MCMemoria` and `MCMemoria_best`, whose requests never run
out, check it.

Fairness.  Threads are POSIX threads that the system scheduler runs, so a
thread that can go on does: weak fairness of each (`Justicia`, `SpecJusta`).
The arrival of a process is not fair, as a user may never come.  Weak fairness
is also what a mutex or a `recv` of the C library gives to a thread whose wait
condition stays true; nothing stronger is assumed, and the bound on system
calls is what ends the competition for a mutex.  Under it `TerminaSalvoAbrazo`
holds: every process ends, unless the two schedulers come to wait for each
other (`Abrazo`, the first item below), so that among
the schedulers nothing else stops a process for ever.  Waits for resources and
files are the subject of `AtascoExplicado`, without fairness.

## 4. Disagreements found

1. `core.c:73-75`, 131: the long-term thread sleeps on `semaforo_mp` with
   `mutex_mp` held; `terminar_proceso` needs it to post the semaphore.  One
   arrival with the degree full and nothing ends or starts any more.
2. `kernel/src/comunicacion.c:36-45`: a process can be admitted before it is in
   `PROCESOS_EN_MEMORIA`; a compaction then finds no PCB for it.
3. `memoria/src/utils.c:178-203`: BEST is FIRST.
4. `core.c:146`: the inner loop advances the outer index; resources leak.
5. `filesystem/src/core.c:117`: truncating a file of one block to 0 frees
   block 0, whoever has it.
6. `core.c:538-544`: truncates use the connection without
   `mutex_compactacion`, so answers cross and the mutex is released under a
   read or write that is still being served.

`CompactacionEsperaSinCruce`, `AbiertosExisten` and `NadiePerdido` show that
the crossing of answers is the only cause of 6 and of its two consequences, a
process that is never READY again and a file that is open and does not exist.

Limits of the code that no text of the repository denies are stated as conditions
of properties that hold:

- `Exclusion`: a SIGNAL of a resource the process does not have adds an instance, and
  one more process than the configuration says can have the resource.
- `CaidaConTres`: the release loop (item 4) can dereference a NULL, and only for a
  process that ends with three resources or more.
- `AtascoExplicado`: the kernel neither prevents nor detects circles of waits, a
  process that ends keeps its files, and a WAIT of a resource configured with 0
  instances blocks for ever.
- `MemoriaCaidaExplicada`: F_READ and F_WRITE pass on the -1 of the MMU, and memoria
  falls on it.  It never falls for an address that a compaction made old.
- `DireccionVigente`, `ImplementaAislados`: a file thread has its physical address
  before it locks `mutex_compactacion` (`core.c:562-565`).  A compaction that gets the mutex
  in between moves the segment, and the transfer goes to the old place, which may be
  another process's.  The refinement leaves out that step, and only after a compaction in
  that window, and a compaction whose `memcpy` copies backward over its own source, which
  damages the segment it moves; what both do to the memory stays for what follows.
- `CaidaExplicada`: the CPU crashes on an address past the segment table, and on
  a program whose last instruction is a system call other than EXIT.
- `BloquesExactos`, `CortesSoloPierden`: a stop inside a growth loses blocks, and so
  does a file that shrinks to one block and grows again (`core.c:83-86` takes a
  second indirect block over the one that 126 kept).  A stop inside a
  shrink, or a truncation on a full disk, leaves a file with pointers to blocks that are
  not its own.
- `SoloElArchivo`, `ImplementaArchivos`: a write past the end of a file goes to
  block 0 or to a block of anybody, and a stop while `eferrait` writes `bloques.dat`
  again (`core.c:220`) empties blocks of every file.

## 5. Proofs

Every theorem holds for any set of processes, resources or files, any number of
calls and any value of the constants that satisfies the assumptions of its module:
`SupuestoGrado`, `SupuestoNulo`, `SupuestoPrograma` and `SupuestoAlgoritmo` of
`Planificador`; `SupuestoNulo` and `SupuestoPrograma` of `Conversaciones`;
`SupuestoRecursos`, `SupuestoProcesos` and `SupuestoArchivos` of `Recursos` and
`TablaArchivos`;
`SupuestoMemoria` of `Memoria`; `SupuestoArchivos` of `SistemaArchivos`;
`SupuestoInstrucciones`, `SupuestoContexto` and
`SupuestoCpu` of `Instrucciones`, `Contexto` and `Cpu`.  They say that `NULO` is no
process, that the processes of `Recursos` are finitely many (one for each console that
has connected), and that bounds and sizes are natural numbers (a segment 0 not bigger than the
memory, sizes asked for greater than 0), which is what the configuration files and the
parser give; that the registers travel in some order, each once, with widths of one
cell at least; and that programs are not empty and made of `INSTRUCCIONES`.

### Schedulers (`PlanificadorPruebas`)

| Theorem | Property |
|---|---|
| `TipoCorrecto`, `GuardaNoHaceFalta`, `ReadyCuentaExacta`, `TraspasoSeguro` | `TypeOK`, `GuardaRedundante`, `TokensREADY`, `TraspasoIO` |
| `LugarUnico` | `UnSoloLugar` |
| `GradoCuentaActivos` | `GradoExacto` |
| `ImplementaCiclo` | `CumpleCiclo` (refinement of `CicloDeVida`) |

None of the first four is inductive alone.  `Inductivo` adds: what `r_pcb` and
`RUNNING` are at each place of the short-term thread (`Atendido`), without which
`CortoIO` could hand over the wrong process; that EXIT holds at most the
process being ended (`ColaExit`); that each element of NEW has a token, a
console about to post one or the long-term thread on its way with one
(`TokensNEW`); and that room and degree add up (`TokensMp`).  The last two give
`GuardaRedundante`: the thread at line 75 has one token of each kind, so NEW is
not empty and the degree is below the maximum.

`Lugares` counts, for each process, its occurrences in the lists and in the
hands of each thread, and says that they are one from its arrival to its end;
it needs that `RUNNING` is empty whenever the short-term thread chooses
(`CpuVacia`).  `GradoActivo` identifies the processes that
`GRADO_ACTUAL_MPROG` counts.  The refinement takes each step to the transition of
at most one process: `MismasMarcas` says what leaves a process where it was, and
`NuevoAca` that `new_pcb` outlives no admission.

### Resources and files (`RecursosPruebas`, `TablaArchivosPruebas`)

| Theorem | Property |
|---|---|
| `InvarianteRecursos`, `InvarianteTabla` | the inductive invariants |
| `TipoCorrectoTabla` | `TypeOKTabla` |
| `CuentaDeCola` | `ColaExacta` |
| `ExclusionMutua` | `Exclusion` |
| `AtascosExplicados` | `AtascoExplicado` |
| `CaidaSoloConTres` | `CaidaConTres` |
| `EsperaEnUnLugar` | `EsperaUnaCosa` |
| `DuenioUnico` | `UnDuenio` |
| `ArchivosPorTurno` | `ImplementaTurnos` (refinement of `ArchivosEnTurno`) |

`DeRecursos` says that a resource is once in the list of a process and, for every
point of the release loop (`Vuelta`), how its indices relate to the list
the body shortens: the outer loop removes at most one resource, because after
the first the index is no longer 0.  That is why the loop needs three to fall on
a NULL.  `EnUnaCola` says that a process in a queue is there once, in no
other and in nobody's hands.  `Repartidos` is the ownership of files: a file of the
table that was not left open has exactly one process that notes it once more
than it waits for it, and any other file has none.  The refinement adds
`DesdeCero`: who waits for a file will start at its first byte.

`Exclusion` adds up what the processes have, so it rests on the lemmas of
`SecuenciasPruebas` about sums over a finite set (`SumaEs`, `SumaDifiere`,
`SumaDeUno`), which the library does not have.  `Cuenta` is the inductive part: what is
available and what the processes have noted are together at most the instances of
the configuration and the SIGNALs of `regalos` (fewer, after an end that leaked some).  Who waits has noted one it
does not have, and `ColaExacta` counts those.  For `AtascoExplicado`, `EnAlgunLado`
says that whoever has something is in READY, RUNNING, EXIT or a queue.  If nobody
can run, everybody who has a thing waits for one; a thing that is waited for has an
owner (`AlguienLoTiene`, by `Cuenta`; `AlguienTieneElArchivo`, by `Repartidos`) unless
it was lost or there never was one; so all who wait make the circle.

### Memoria (`MemoriaPruebas`)

| Theorem | Property |
|---|---|
| `SiempreOrden` | the inductive invariant `Orden` |
| `TipoCorrecto` | `TypeOK` |
| `CadaByteUnDuenio` | `Particion` |
| `HuecosConsolidados` | `Consolidada` |
| `BusquedaCorrecta` | `BusquedaCompleta` (`WorstElMayor` is a part of it) |
| `TablasConcuerdan` | `TablasDeAcuerdo` |
| `CompactarUnaVez` | `UnaCompactacionAlcanza` |
| `MemoriaSegmentada` | `ImplementaMemoria` (refinement of `MemoriaAbstracta`) |

`Orden` has three parts: both lists are in order of base, share every byte above
segment 0, no two holes touch and the total is the sum of the holes (`Sana`);
the kernel's tables tell of exactly the segments of the list (`Acuerdo`); and the
creation that waits for a compaction fits in the free bytes (`PedidoPosible`).
Its first part has one lemma for each function of `utils.c`:
`Liberacion` (a freed segment joins the hole before it, after it or both),
`Borrado`, `Creado`, `BusquedaAcierta`, `Compacta`.

The loops of the code are folds.  `PliegueExiste` shows that a fold over positions
has all its intermediate results, each the step of the one before, and
`Induccion` derives from the order of the naturals that what the first has and
every step keeps, the last has.  With them the search loops, the consolidation
and the compaction are followed turn by turn.  In the compaction the hole
follows the segments: before turn k the first k segments are below the first hole
(`SigueAlHueco`), a turn slides the next segment down by the size of that hole and
joins the hole with the one above (`Corrimiento`), and at the end there is
one hole (`UnHueco`).  The refinement needs only one thing more, that an
inactive entry of a table has size 0 (`EnZonas`), since the regions of the abstract
memory are those of the tables.

### Filesystem (`SistemaArchivosPruebas`)

| Theorem | Property |
|---|---|
| `InvarianteArchivos` | the inductive invariant `Inductivo` |
| `ArchivosBienFormados` | `TypeOK` |
| `BloquesSiempreExactos` | `BloquesExactos` |
| `CortesSiempreSoloPierden` | `CortesSoloPierden` |
| `CopiasSiempreCorrectas` | `CopiasCorrectas` |
| `SiempreSoloElArchivo` | `SoloElArchivo` (an action property) |
| `BloquesImplementanArchivos` | `ImplementaArchivos` (refinement of `ArchivosAbstractos`) |

These theorems have one hypothesis besides `SupuestoArchivos`, which the instances of
`MCSistemaArchivos` satisfy.  `PunterosEnteros`: a block holds a whole number of
pointers of 4 bytes, as the 64 bytes of the superbloque do.  Files may be of any size,
one block included, writes of any position and amount, and a stop may come inside any
request.

`Inductivo` says where every block is.  The positions of a file are its direct block,
its indirect block and the pointers in it (`Posiciones`, with -1 for the indirect
block, which a file of one block has if it was bigger before; `Ref` follows them).
`Repartidos`: each position of each file has a marked block
that no other position has, the blocks not marked hold zeros and an empty file has no
indirect block; it holds until one of `Finales`.  `SinPerdidos`: every marked block is of
some position; it holds while the disk is "exacto", and is what a stop in a growth and a
second indirect block lose.  Emptying a file of one block frees block `f_ip`: its
indirect block, or block 0 when it never had one.  `CeroDeNadie` says when block 0 is then no
other file's, which is when the disk goes on.

A truncation is two folds of the functions of `utils.c`.  `BucleDeAsignar` follows the
growth and `BucleDeSoltar` the shrink, turn by turn, with a lemma for each function, and
`TruncadoEs` puts both together: what the file keeps, what it gets (a block that was free,
with zeros) and what it gives back (clean and unmarked), also for every image that
`escrito` has and for a growth that finds no free block.  Other files are found where
they were because their blocks are not touched (`AjenosQuietos`).

`CopiasSon` gives the loop of copies in closed form: copy i takes what is left of the
block the transfer is in.  `CopiasCorrectas` then is arithmetic: the position of each byte
has one quotient and one remainder by the size of a block, and the sizes of the copies add up
to the bytes asked for (`BucleDeSumar`).  `EscritoEs` follows the same copies as
writes: inside the file each one marks a block of a position of the file and no other,
so that the pointers by which the next one is found are still there.

### Connection to the filesystem (`ConversacionesPruebas`)

| Theorem | Property |
|---|---|
| `TipoCorrecto` | `TypeOK` |
| `EsperasJustas` | `RespuestasJustas` |
| `CompactacionAislada` | `CompactacionEsperaSinCruce` |
| `AbiertosTienenFCB` | `AbiertosExisten` |
| `NadieSePierde` | `NadiePerdido` (an action property) |

`Forma` says where each process is and who has `mutex_compactacion`; `Cuenta`
that requests and answers on the connection are as many as the threads that wait,
which holds even when answers cross.  `Acuerdo` says, until the first
crossing, that everything on the connection is waited for by the process it names
(`TodosVigentes`), once (`UnoPorProceso`), and that each answer tells the truth
about the FCB (`Veraces`).  The three last theorems say nothing after the first crossing
of the run, whoever's answers it crossed.

### CPU (`CpuPruebas`)

| Theorem | Property |
|---|---|
| `InvarianteCpu` | the inductive invariant `Inductivo` |
| `TipoCorrectoCpu` | `TypeOK` |
| `DireccionesVigentes` | `DireccionVigente` |
| `CaidasExplicadas` | `CaidaExplicada` |
| `InvarianteMemoria` | `DeMemoria`, inductive together with `Inductivo` |
| `MemoriaCaePorLaSuya` | `MemoriaCaidaExplicada` |

The CPU works on what it reads from a message by position, so nothing can be said of it
before knowing that what is read is what was written.  `ContextoVuelve` says so of a
context from the kernel and `LlamadaVuelve` of a call from the CPU, for any
registers and widths, any number of instructions and any table; they rest on
`RegistrosVuelven` and `TablaVuelve`, and these on `Aplanada` of `SecuenciasPruebas`,
which says where each part of a flattened sequence is.

`Inductivo` has four parts.  `Datos`: the types, and each segment of a table inside
memory, without which a MOV_OUT or a compaction would touch cells that do not exist.
`Vivos`: a process that has not ended has an instruction left or stopped at a
call (`Sigue`), and the one in RUNNING has no thread.  `Turno`: while the
CPU executes, its program and its segments are those the kernel keeps for RUNNING;
while a call is on the way, its arguments are those of the instruction before the program
counter, with the address the MMU gives with the table the kernel still has.  The
fourth is `DireccionVigente`: the thread takes that address, tables change only for
RUNNING, which has no thread, or in a compaction, which waits for those that have the
mutex and marks the rest.  `SoloBaja` shows that a compaction only moves
segments down, so that they stay inside memory, and `OrigenDentro` that a copy in
either direction takes cells of its segment.

`DeMemoria` says that a thread's transfer is inside memory, also at an old address,
unless the MMU said no: where the segment was before the compaction there was memory,
and sizes do not change.

### Only model-checked

- Liveness (`TerminaSalvoAbrazo`, `TodosReciben`): fairness and `ENABLED` are out of the
  prover's reach.
- The refinement of `ProcesosAislados` by `Cpu`: no proof has been written yet.
- The six disagreements of section 4, which are counterexamples.

## 6. Not modelled

- Clock times and response ratios (`core.c` 32-56, 98, 122): HRRN may take any process of
  READY, which covers every ratio, and says nothing of who overtakes whom.
- The second client thread of `socket_memoria` (the long-term scheduler's): once
  the answers of the two cross, each reads numbers of one message as parts of
  another, and there is no behaviour left to state.
- Undefined behaviour: the unlocked accesses to the array of
  `PROCESOS_EN_MEMORIA`, a file operation on a file the process has not opened,
  a write past the end of `blocks_buffer`; and results of an overlapping `memcpy` other
  than a copy forward or backward.
- Negative, zero and wrapping sizes; a segment created twice or deleted without
  being active.
- What follows on a disk in one of `Finales`, and after memoria falls but for what does
  not need it.
- What a read past the end of a file finds: reads change nothing in the filesystem.
- A message that arrives in parts: each is received whole.
- Consola (parses a script and sends it once), the socket wrappers and the
  handshake, configuration, logs, the test drivers: sequential I/O.

## 7. Plan

1. Proofs: the refinement of `ProcesosAislados` by `Cpu`, which adds to the invariant that
   segments do not overlap.
2. Model: overtaking under HRRN with ratios as small integers.
