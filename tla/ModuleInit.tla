------------------------------ MODULE ModuleInit ----------------------------
(***************************************************************************)
(* Loading and unloading of the repository's modules, one definition for   *)
(* each: what its init function obtains, step by step, what it undoes when *)
(* a step fails, and what its exit function gives back.  A step that adds  *)
(* an entry point (a device, a /proc file, an interrupt handler) lets      *)
(* others in at once, whether or not the steps after it have been done.    *)
(* An array of devices, of /proc files or of pins stands as one resource.  *)
(***************************************************************************)
EXTENDS Sequences, Naturals

VARIABLES mod, phase, step, todo, held, bad, undone

vars == <<mod, phase, step, todo, held, bad, undone>>

\* Steps: what they get, what is undone if they fail, and how many of the steps that
\* follow are then left out; init gives up when all are.
GiveUp == 99
Else(r, undo, k) == [get |-> {r}, may |-> {"get", "fail"}, undo |-> undo, skip |-> k]
Or(r, undo)      == Else(r, undo, GiveUp)
Try(r)           == Else(r, <<>>, 0)
\* A single page, of which the code says that the allocation never fails.
Sure(r)          == [Try(r) EXCEPT !.may = {"get"}]
\* Fails unless one of rs is there.
Test(rs, undo)   == [get |-> rs, may |-> {"test"}, undo |-> undo, skip |-> GiveUp]

\* safe: to be given back also when absent (a null pointer, a test, a function that
\* takes no offence); dangling: a pointer that keeps its value when undone;
\* needs: what the functions behind an entry point use.
Module(init, exit) ==
  [init |-> init, exit |-> exit, safe |-> {}, dangling |-> {}, needs |-> {}]

-----------------------------------------------------------------------------
(* Book *)

scull_p_init == <<Else("p_region", <<>>, 2), Else("p_devices", <<"p_region">>, 1), Try("p_cdevs")>>
scull_p_cleanup == <<"p_cdevs", "p_devices", "p_region">>

scull_access_init == <<Else("a_region", <<>>, 1), Try("a_cdevs")>>
scull_access_cleanup == <<"a_cdevs", "a_region">>

scull_cleanup_module ==
  <<"cdevs", "devices", "proc", "region">> \o scull_p_cleanup \o scull_access_cleanup

scull == [Module(<<Or("region", <<>>), Or("devices", scull_cleanup_module), Try("cdevs")>>
                 \o scull_p_init \o scull_access_init \o <<Try("proc")>>, scull_cleanup_module)
          EXCEPT !.safe = {"cdevs", "devices", "proc", "a_region", "p_cdevs", "p_devices", "p_region"},
                 !.needs = {<<"cdevs", "devices">>, <<"p_cdevs", "p_devices">>, <<"proc", "devices">>}]

scullc_cleanup == <<"proc", "cdevs", "devices", "cache", "region">>
scullc == [Module(<<Or("region", <<>>), Or("devices", <<"region">>), Try("cdevs"),
                    Or("cache", scullc_cleanup), Try("proc")>>, scullc_cleanup)
           EXCEPT !.safe = {"proc", "cdevs", "cache"},
                  !.needs = {<<"cdevs", "devices">>, <<"cdevs", "cache">>, <<"proc", "devices">>}]

Pages(init) ==
  [Module(init, <<"proc", "cdevs", "devices", "region">>)
   EXCEPT !.safe = {"proc", "cdevs"},
          !.needs = {<<"cdevs", "devices">>, <<"proc", "devices">>}]
\* Mutant of scullp: the region stays when there is no memory.
scullp_NoUndo == Pages(<<Or("region", <<>>), Or("devices", <<>>), Try("cdevs"), Try("proc")>>)
scullp == Pages(<<Or("region", <<>>), Or("devices", <<"region">>), Try("cdevs"), Try("proc")>>)
scullv == Pages(<<Or("region", <<>>), Or("devices", <<"region">>), Try("cdevs"), Try("proc")>>)

Sculld(exit) ==
  [Module(<<Or("region", <<>>), Try("ldd_driver"), Or("devices", <<"region">>),
            Try("cdevs"), Try("ldd_devices"), Try("proc")>>, exit)
   EXCEPT !.safe = {"proc", "cdevs"},
          !.needs = {<<"cdevs", "devices">>, <<"proc", "devices">>, <<"ldd_devices", "devices">>}]
\* Mutant of sculld: the /proc file goes last.
sculld_ProcLast == Sculld(<<"ldd_devices", "cdevs", "devices", "ldd_driver", "region", "proc">>)
sculld == Sculld(<<"proc", "ldd_devices", "cdevs", "devices", "ldd_driver", "region">>)

\* With I/O ports; "irq" is the handler that remains when init is through with them.
short == [Module(<<Or("ports", <<>>), Or("chrdev", <<"ports">>), Sure("page"), Try("irq")>>,
                 <<"irq", "chrdev", "ports", "page">>)
          EXCEPT !.safe = {"irq"}, !.needs = {<<"irq", "page">>}]

shortp_cleanup == <<"irq", "chrdev", "ports", "timer", "wq", "in_page", "out_page">>
shortp_init ==
  [Module(<<Or("ports", <<>>), Or("chrdev", <<"ports">>), Sure("in_page"), Sure("out_page"),
            Try("wq"), Or("irq", shortp_cleanup)>>, shortp_cleanup)
   EXCEPT !.safe = {"irq", "timer", "in_page", "out_page"},
          !.needs = {"chrdev", "irq"} \X {"in_page", "out_page", "wq"}]

simple == [Module(<<Or("region", <<>>), Try("cdevs")>>, <<"cdevs", "region">>)
           EXCEPT !.safe = {"cdevs"}]

skull == Module(<<Try("ioremap"), Try("ports")>>, <<>>)

\* register_netdev of one may fail when that of the other does not.
snull_cleanup == <<"netdev0", "alloc0", "netdev1", "alloc1">>
snull == [Module(<<Try("alloc0"), Try("alloc1"), Test({"alloc0"}, snull_cleanup),
                   Test({"alloc1"}, snull_cleanup), Try("netdev0"), Try("netdev1"),
                   Test({"netdev0", "netdev1"}, snull_cleanup)>>, snull_cleanup)
          EXCEPT !.safe = {"alloc0", "alloc1", "netdev0", "netdev1"},
                 !.needs = {<<"netdev0", "netdev1">>, <<"netdev1", "netdev0">>,
                            <<"netdev0", "alloc1">>, <<"netdev1", "alloc0">>}]

tiny_tty == [Module(<<Or("driver", <<>>), Or("registered", <<"driver">>), Try("ttys")>>,
                    <<"ttys", "registered">>)
             EXCEPT !.safe = {"ttys"}, !.needs = {<<"ttys", "registered">>, <<"registered", "driver">>}]

\* There is no exit function, and so no unloading.
NoExit == <<"no exit">>
tiny_serial == Module(<<Or("driver", <<>>), Or("port", <<"driver">>)>>, NoExit)

\* One device.  unregister_blkdev is called with another name, and does nothing.
sbull == [Module(<<Or("major", <<>>), Or("devices", <<>>), Else("data", <<>>, 2),
                   Else("queue", <<"data">>, 1), Else("disk", <<"data">>, 0)>>,
                 <<"disk", "queue", "data", "major", "devices">>)
          EXCEPT !.safe = {"disk", "queue", "data"}, !.dangling = {"data"},
                 !.needs = {<<"disk", "data">>, <<"disk", "queue">>}]

ldd_bus == [Module(<<Or("bus", <<>>), Try("version"), Or("ldd0", <<>>)>>,
                   <<"ldd0", "version", "bus">>)
            EXCEPT !.safe = {"version"}, !.needs = {<<"ldd0", "bus">>}]

usb_skel == Module(<<Or("driver", <<>>)>>, <<"driver">>)
pci_skel == Module(<<Or("driver", <<>>)>>, <<"driver">>)

Chrdev == Module(<<Or("chrdev", <<>>)>>, <<"chrdev">>)
complete == Chrdev
faulty   == Chrdev
sleepy   == Chrdev
silly == [Module(<<Or("chrdev", <<>>), Try("ioremap")>>, <<"ioremap", "chrdev">>)
          EXCEPT !.safe = {"ioremap"}, !.needs = {<<"chrdev", "ioremap">>}]

ProcFiles == [Module(<<Try("proc")>>, <<"proc">>) EXCEPT !.safe = {"proc"}]
jiq == ProcFiles
jit == ProcFiles
seq == ProcFiles

-----------------------------------------------------------------------------
(* exercise, old, gpio *)

x_faulty == Module(<<Or("region", <<>>), Or("cdev_mem", <<"region">>),
                     Or("cdev", <<"region", "cdev_mem">>)>>, <<"cdev", "cdev_mem", "region">>)

x_jit == ProcFiles

rasp_gpio ==
  [Module(<<Or("region", <<>>), Or("ioremap", <<"region">>), Or("dev", <<"region", "ioremap">>),
            Or("pins", <<"dev", "region", "ioremap">>),
            Or("cdev", <<"pins", "dev", "region", "ioremap">>), Try("proc"), Try("irq"), Sure("timer")>>,
          <<"timer", "irq", "proc", "region", "cdev", "pins", "dev", "ioremap">>)
   EXCEPT !.safe = {"proc"},
          !.needs = {"cdev", "proc", "timer"} \X {"ioremap", "dev", "pins"}]

x_scull == [Module(<<Or("region", <<>>), Or("devices", <<"region">>), Try("cdevs"), Try("proc")>>,
                   <<"cdevs", "devices", "region", "proc">>)
            EXCEPT !.safe = {"cdevs", "proc"},
                   !.needs = {<<"cdevs", "devices">>, <<"proc", "devices">>}]

x_scull_cache == scullc
x_scull_page  == scullp

x_scullpipe == [Module(<<Or("region", <<>>), Or("devices", <<>>), Try("cdevs"), Try("proc")>>,
                       <<"proc", "cdevs", "devices", "region">>)
                EXCEPT !.safe = {"proc", "cdevs"},
                       !.needs = {<<"cdevs", "devices">>, <<"proc", "devices">>}]

\* With I/O ports; "region" is given back also when it was not had.
x_short_undo == <<"region", "dev", "ports">>
x_short == [Module(<<Or("ports", <<>>), Try("dev"), Or("region", x_short_undo), Or("cdev", x_short_undo)>>,
                   <<"cdev", "region", "dev", "ports">>)
            EXCEPT !.safe = {"region", "dev"}, !.needs = {<<"cdev", "dev">>}]
\* With I/O memory, which is asked for and then refused whatever the answer.
x_short_mem == Module(<<Try("mem_region"), Test({}, <<>>)>>, NoExit)

x_silly == [Module(<<Or("region", <<>>), Or("dev", <<"region">>), Try("ioremap"), Or("cdev", <<>>)>>,
                   <<"cdev", "region", "ioremap", "dev">>)
            EXCEPT !.safe = {"ioremap"}, !.needs = {<<"cdev", "dev">>, <<"cdev", "ioremap">>}]

\* Given a major number, what register_chrdev_region answers is not looked at, but a
\* variable that has no value.
globalfifo == [Module(<<Try("region"), Else("luck", <<>>, GiveUp), Or("devices", <<"luck", "region">>),
                        Try("cdevs")>>, <<"cdevs", "luck", "region", "devices">>)
               EXCEPT !.safe = {"region", "cdevs"}, !.needs = {<<"cdevs", "devices">>}]

second == [Module(<<Or("region", <<>>), Or("dev", <<"region">>), Try("cdev")>>,
                  <<"cdev", "dev", "region">>)
           EXCEPT !.safe = {"cdev"}, !.needs = {<<"cdev", "dev">>}]

gpio == Module(<<Or("ioremap", <<>>)>>, <<"ioremap">>)

-----------------------------------------------------------------------------
(* ITOP-4412; a probe and its remove as the init and exit of their own *)

beep_resource_free == <<"gpio", "ioremap", "mem_region">>
beep_fail == <<"class", "dev", "region">>
beep == [Module(<<Or("region", <<>>), Or("class", <<"region">>), Or("dev", <<"class", "region">>),
                  Or("gpio", beep_fail), Or("mem_region", <<"gpio">> \o beep_fail),
                  Or("ioremap", <<"gpio">> \o beep_fail),
                  Or("pin_function", <<"gpio">> \o beep_resource_free \o beep_fail),
                  Or("cdev", <<"pin_function">> \o beep_resource_free \o beep_fail), Try("node")>>,
                <<"node", "cdev", "pin_function">> \o beep_resource_free \o <<"class", "dev", "region">>)
         EXCEPT !.safe = {"node"}, !.needs = {"cdev"} \X {"dev", "gpio", "ioremap"}]

class == [Module(<<Or("region", <<>>), Try("class"), Or("driver", <<"class", "region">>)>>,
                 <<"driver", "class", "region">>)
          EXCEPT !.safe = {"class"}, !.needs = {<<"driver", "class">>}]
class_probe == [Module(<<Try("dev"), Try("pins"), Else("cdev", <<>>, 0), Try("node"),
                         Test({"cdev"}, <<"pins", "dev">>)>>, <<"node", "cdev", "pins">>)
                EXCEPT !.safe = {"node", "dev"}, !.needs = {<<"cdev", "dev">>, <<"cdev", "pins">>}]

led_gpl2 == [Module(<<Try("mem_region"), Try("ioremap")>>, <<"ioremap">>) EXCEPT !.safe = {"ioremap"}]

PlatformDriver == Module(<<Or("driver", <<>>)>>, <<"driver">>)
hello_driver == PlatformDriver
misc_driver  == PlatformDriver
leds_driver  == PlatformDriver

misc_probe == [Module(<<Try("misc")>>, <<"misc">>) EXCEPT !.safe = {"misc"}]
leds_probe == [Module(<<Or("gpio", <<>>), Try("misc")>>, <<"gpio", "misc">>)
               EXCEPT !.safe = {"misc"}, !.needs = {<<"misc", "gpio">>}]

-----------------------------------------------------------------------------

Modules ==
  [scull |-> scull, scullc |-> scullc, scullp |-> scullp, scullv |-> scullv, sculld |-> sculld,
   short |-> short, shortprint |-> shortp_init, simple |-> simple, skull |-> skull, snull |-> snull,
   tiny_tty |-> tiny_tty, tiny_serial |-> tiny_serial, sbull |-> sbull, lddbus |-> ldd_bus,
   usb_skel |-> usb_skel, pci_skel |-> pci_skel, complete |-> complete, faulty |-> faulty,
   sleepy |-> sleepy, silly |-> silly, jiq |-> jiq, jit |-> jit, seq |-> seq,
   x_faulty |-> x_faulty, x_jit |-> x_jit, rasp_gpio |-> rasp_gpio, x_scull |-> x_scull,
   x_scull_cache |-> x_scull_cache, x_scull_page |-> x_scull_page, x_scullpipe |-> x_scullpipe,
   x_short |-> x_short, x_short_mem |-> x_short_mem, x_silly |-> x_silly,
   globalfifo |-> globalfifo, second |-> second, gpio |-> gpio,
   beep |-> beep, class |-> class, class_probe |-> class_probe, led_gpl2 |-> led_gpl2,
   hello_driver |-> hello_driver, misc_driver |-> misc_driver, leds_driver |-> leds_driver,
   misc_probe |-> misc_probe, leds_probe |-> leds_probe]

This == Modules[mod]

Init == /\ mod \in DOMAIN Modules /\ phase = "out" /\ step = 1 /\ todo = <<>>
        /\ held = {} /\ bad = {} /\ undone = {}

Load == /\ phase = "out" /\ phase' = "init" /\ step' = 1
        /\ UNCHANGED <<mod, todo, held, bad, undone>>

\* What an earlier, failed loading has left registered is refused.
Obtain(s) ==
  /\ "get" \in s.may /\ s.get \cap held = {}
  /\ held' = held \cup s.get /\ undone' = undone \ s.get /\ step' = step + 1
  /\ UNCHANGED todo

Passes(s) ==
  /\ "test" \in s.may /\ s.get \cap held # {} /\ step' = step + 1
  /\ UNCHANGED <<todo, held, undone>>

Fails(s) ==
  /\ "fail" \in s.may \/ ("test" \in s.may /\ s.get \cap held = {})
  /\ todo' = s.undo /\ step' = step + 1 + s.skip
  /\ UNCHANGED <<held, undone>>

InitStep == /\ phase = "init" /\ todo = <<>> /\ step <= Len(This.init)
            /\ LET s == This.init[step] IN Obtain(s) \/ Passes(s) \/ Fails(s)
            /\ UNCHANGED <<mod, phase, bad>>

Release == /\ todo # <<>> /\ todo' = Tail(todo)
           /\ LET r == Head(todo) IN
              /\ held' = held \ {r} /\ undone' = undone \cup {r}
              /\ bad' = IF \/ r \in held
                           \/ r \in This.safe /\ r \notin undone \cap This.dangling
                        THEN bad ELSE bad \cup {r}
           /\ UNCHANGED <<mod, phase, step>>

InitDone == /\ phase = "init" /\ todo = <<>> /\ step > Len(This.init)
            /\ phase' = IF step > GiveUp THEN "out" ELSE "loaded"
            /\ UNCHANGED <<mod, step, todo, held, bad, undone>>

Use == phase = "loaded" /\ UNCHANGED vars

Exit == /\ phase = "loaded" /\ This.exit # NoExit
        /\ phase' = "exit" /\ todo' = This.exit
        /\ UNCHANGED <<mod, step, held, bad, undone>>

ExitDone == /\ phase = "exit" /\ todo = <<>> /\ phase' = "out" /\ undone' = {}
            /\ UNCHANGED <<mod, step, todo, held, bad>>

Next == Load \/ InitStep \/ Release \/ InitDone \/ Use \/ Exit \/ ExitDone

Spec == Init /\ [][Next]_vars

-----------------------------------------------------------------------------
(* Properties *)

\* What is known to be kept or to be given back twice; the README says where.
Unbalanced ==
  {<<"scull", "a_cdevs">>, <<"sculld", "ldd_driver">>, <<"sculld", "ldd_devices">>,
   <<"shortprint", "wq">>, <<"skull", "ioremap">>, <<"skull", "ports">>, <<"tiny_tty", "driver">>,
   <<"sbull", "major">>, <<"sbull", "data">>, <<"lddbus", "bus">>, <<"lddbus", "version">>,
   <<"rasp_gpio", "irq">>, <<"x_scullpipe", "region">>, <<"x_short_mem", "mem_region">>,
   <<"x_silly", "region">>, <<"x_silly", "dev">>, <<"x_silly", "ioremap">>,
   <<"globalfifo", "region">>, <<"beep", "gpio">>, <<"beep", "mem_region">>,
   <<"class_probe", "dev">>, <<"class_probe", "node">>, <<"class_probe", "pins">>,
   <<"led_gpl2", "mem_region">>}

\* Whichever step of loading fails, and however often the module is loaded again: what
\* it holds is given back, all of it, by the error path or by the exit function, and
\* nothing is given back that it does not hold.
Balanced == \A r \in bad \cup (IF phase = "out" THEN held ELSE {}) : <<mod, r>> \in Unbalanced

\* Entry points through which nobody comes in once unloading has begun.
Nodes == {"cdev", "cdevs", "p_cdevs", "chrdev", "misc"}

\* Entry points known to open too early or to close too late.
Early == {<<"scull", "proc", "devices">>, <<"x_scull", "proc", "devices">>,
          <<"scullc", "cdevs", "cache">>, <<"x_scull_cache", "cdevs", "cache">>,
          <<"shortprint", "chrdev", "in_page">>, <<"shortprint", "chrdev", "out_page">>,
          <<"shortprint", "chrdev", "wq">>, <<"shortprint", "irq", "wq">>,
          <<"silly", "chrdev", "ioremap">>, <<"x_silly", "cdev", "ioremap">>,
          <<"x_short", "cdev", "dev">>, <<"class", "driver", "class">>,
          <<"class_probe", "cdev", "dev">>, <<"class_probe", "cdev", "pins">>,
          <<"snull", "netdev0", "netdev1">>, <<"snull", "netdev1", "netdev0">>,
          <<"snull", "netdev1", "alloc0">>}

\* In every moment of loading, of undoing a failed loading and of unloading, the
\* functions behind each entry point that is open find what they use.
EntriesReady ==
  \A n \in This.needs :
    <<mod, n[1], n[2]>> \notin Early /\ n[1] \in held /\ ~(phase = "exit" /\ n[1] \in Nodes)
      => n[2] \in held
=============================================================================
