------------------------------ MODULE SoundSinks ------------------------------
(***************************************************************************)
(* Sound sinks: how a generator is created with a sound system, what it    *)
(* opens, writes to and closes (libcw_null.c, libcw_console.c, libcw_oss.c,*)
(* libcw_alsa.c, libcw_pa.c, and cw_gen_new() and cw_gen_delete()).        *)
(*                                                                         *)
(* ALSA and PulseAudio are shared libraries that are loaded and counted    *)
(* with dlopen() and dlclose(); each probe of a system loads it once more. *)
(* Devices are the environment: every call to them may fail.  The calls of *)
(* a client are one step each.                                             *)
(***************************************************************************)
EXTENDS Integers, Sequences, FiniteSets

CONSTANTS
    Generators,
    SampleRates,    \* cw_supported_sample_rates, in the order in which they are tried
    ShortestDot,    \* cw_gen_get_shortest_dot_duration_internal(), in microseconds
    PeriodSizes,    \* the ends of the range of periods that a device may offer
    Faults,         \* which calls fail: "open", "configure", "memory", "prepare", "ioctl"
    MaxProbes       \* how often clients ask whether a system is possible

ASSUME SinksAssumption ==
    /\ IsFiniteSet(Generators) /\ MaxProbes \in Nat
    /\ SampleRates \in Seq(Nat) /\ SampleRates # <<>> /\ ShortestDot \in Nat /\ PeriodSizes \subseteq Nat
    /\ Faults \subseteq {"open", "configure", "memory", "prepare", "ioctl"}

VARIABLES
    sink,       \* what each generator has opened
    loaded,     \* how often each library has been loaded
    probes,     \* how often a client has been told that a system is possible
    console     \* [cw_value, beeping, volume] of the speaker of each generator

sinkVars == <<sink, loaded, probes, console>>

Libraries == {"alsa", "pa"}
Soundcards == {"pa", "oss", "alsa"}
Systems == Soundcards \cup {"null", "console"}

(* The device of a generator: "none" before it is opened, "stale" after it *)
(* was closed without the generator's knowing.  For ALSA the state of the  *)
(* PCM, for the others "running".                                          *)
Devices == {"none", "prepared", "running", "xrun", "setup", "stale"}
NoSink == [system |-> "none", device |-> "none", sample_rate |-> 0, buffer_n_samples |-> 0,
           asked |-> 0, misused |-> FALSE]

-----------------------------------------------------------------------------
(* Parameters of a sound card.                                             *)

(* The first of the supported rates that the device accepts.               *)
FirstAccepted(accepted) ==
    SampleRates[CHOOSE i \in DOMAIN SampleRates :
                   /\ SampleRates[i] \in accepted
                   /\ \A j \in 1..i-1 : SampleRates[j] \notin accepted]

(* Mutant: a period as long as the dot.                                    *)
WholeDot(sample_rate, config_period_size) ==
    IF config_period_size # 0 THEN config_period_size
    ELSE (sample_rate * ShortestDot) \div 1000000

(* A few periods for the shortest dot, unless the client asked for a size. *)
IntendedPeriodSize(sample_rate, config_period_size) ==
    IF config_period_size # 0 THEN config_period_size
    ELSE ((sample_rate * ShortestDot) \div 1000000) \div 3

(* What ALSA makes of it: never less than the device's smallest period, a  *)
(* size near it otherwise.                                                 *)
ActualPeriodSize(intended, smallest, largest) ==
    IF intended < smallest THEN smallest
    ELSE IF intended > largest THEN largest ELSE intended

OssFragment == 128
PaBufferSize == 256

Fails(call) == call \in Faults

-----------------------------------------------------------------------------
(* Opening.  Each operator is the set of what may have become of `fresh',  *)
(* the sink of a new generator, with the call's success.                   *)

Opened(s, device, rate, size) ==
    [system |-> s.system, device |-> device, sample_rate |-> rate, buffer_n_samples |-> size,
     asked |-> s.asked, misused |-> s.misused]
Failed(s) == [done |-> FALSE, sink |-> s]
Done(s) == [done |-> TRUE, sink |-> s]

OpenNull(s) == {Done(Opened(s, "running", 48000, 0))}

OpenConsole(s) ==
    {Done(Opened(s, "running", 44100, 0))} \cup (IF Fails("open") THEN {Failed(s)} ELSE {})

(* OSS: what a device answers to the calls, and the fragment it then has.  *)
OssDevices ==
    [synchronizes : BOOLEAN, format : {"S16", "other"}, channels : {1, 2},
     accepted : SUBSET {SampleRates[i] : i \in DOMAIN SampleRates},
     has_space : BOOLEAN, takes_fragment : BOOLEAN, fragment : {OssFragment, 2 * OssFragment}]

(* A fragment of another size is only reported here.                       *)
OssSetFragment(d) == d.takes_fragment /\ d.has_space

(* An answer may differ from what was asked for; only another rate will do.*)
OssIoctls(d) ==
    /\ d.synchronizes /\ d.format = "S16" /\ d.channels = 1
    /\ d.accepted # {} /\ d.has_space
    /\ OssSetFragment(d)

(* The rate and the size of the fragment that may come out of it.          *)
OssConfigurations ==
    {<<FirstAccepted(d.accepted), d.fragment>> : d \in {e \in OssDevices : OssIoctls(e) /\ e.fragment = OssFragment}}

(* A descriptor that cannot be configured is closed, and still in the      *)
(* generator.                                                              *)
OpenOss(s) ==
    {Done(Opened(s, "running", p[1], p[2])) : p \in OssConfigurations}
    \cup (IF Fails("open") THEN {Failed(s)} ELSE {})
    \cup (IF Fails("configure") THEN {Failed([s EXCEPT !.device = "stale"])} ELSE {})

(* ALSA: the rate, and the size of the period within what the device       *)
(* offers; a PCM that cannot be configured stays open, as far as it got.   *)
HwParams(s, config_period_size) ==
    LET accepted == (SUBSET {SampleRates[i] : i \in DOMAIN SampleRates}) \ {{}}
        ranges == {r \in PeriodSizes \X PeriodSizes : r[1] <= r[2]}
        Configured(rate, range) ==
            Opened([s EXCEPT !.asked = config_period_size], "setup", rate,
                   ActualPeriodSize(IntendedPeriodSize(rate, config_period_size), range[1], range[2]))
    IN {Done(Configured(FirstAccepted(a), r)) : a \in accepted, r \in ranges}
       \cup (IF Fails("configure") THEN {Failed([s EXCEPT !.device = "setup"])} ELSE {})

OpenAlsa(s, config_period_size) ==
    {IF r.done THEN Done([r.sink EXCEPT !.device = "prepared"]) ELSE r : r \in HwParams(s, config_period_size)}
    \cup (IF Fails("open") THEN {Failed(s)} ELSE {})
    \cup (IF Fails("configure") THEN {Failed([s EXCEPT !.device = "setup"])} ELSE {})

OpenPa(s) ==
    {Done(Opened(s, "running", 44100, PaBufferSize))}
    \cup (IF Fails("open") THEN {Failed(s)} ELSE {})

(* gen->open_and_configure_sound_device() of a generator of that system.   *)
OpenAndConfigure(system, config_period_size) ==
    LET s == [NoSink EXCEPT !.system = system] IN
    CASE system = "null" -> OpenNull(s)
      [] system = "console" -> OpenConsole(s)
      [] system = "oss" -> OpenOss(s)
      [] system = "alsa" -> OpenAlsa(s, config_period_size)
      [] system = "pa" -> OpenPa(s)

-----------------------------------------------------------------------------
(* Closing: what a generator leaves behind.  The sinks of OSS and the      *)
(* console close their descriptor whatever it is, and -1 is no descriptor; *)
(* ALSA drops and closes the handle it has, and none is a null pointer;    *)
(* PulseAudio looks first.                                                 *)

OssClosesStale(s) == s.system = "oss" /\ s.device = "stale"
AlsaClosesNothing(s) == s.system = "alsa" /\ s.device = "none"

CloseSink(s) == [NoSink EXCEPT !.misused = s.misused \/ OssClosesStale(s) \/ AlsaClosesNothing(s)]

(* Mutant: a library is loaded once, and never unloaded.                   *)
KeepLoaded(libraries, system) == libraries

(* The library is unloaded once with each generator of it.                 *)
Unload(libraries, system) ==
    IF system \in Libraries THEN [libraries EXCEPT ![system] = @ - 1] ELSE libraries

-----------------------------------------------------------------------------
(* The systems that cw_gen_new_open_internal() tries, in this order.       *)
Tried(sound_system) == IF sound_system = "soundcard" THEN <<"pa", "oss", "alsa">> ELSE <<sound_system>>

(* Whether a system can be used: cw_is_alsa_possible() loads the library,  *)
(* looks up its functions and opens the device; whichever of these fails,  *)
(* it is unloaded.  A success keeps it for the generator to come.          *)
AlsaIsPossible(libraries) ==
    {[possible |-> FALSE, libraries |-> libraries],
     [possible |-> TRUE, libraries |-> [libraries EXCEPT !["alsa"] = @ + 1]]}

PaIsPossible(libraries) ==
    {[possible |-> FALSE, libraries |-> libraries],
     [possible |-> TRUE, libraries |-> [libraries EXCEPT !["pa"] = @ + 1]]}

(* The others open their device, and close it.                             *)
OssIsPossible(libraries) == {[possible |-> p, libraries |-> libraries] : p \in BOOLEAN}
ConsoleIsPossible(libraries) == {[possible |-> p, libraries |-> libraries] : p \in BOOLEAN}
NullIsPossible(libraries) == {[possible |-> TRUE, libraries |-> libraries]}

Probe(system, libraries) ==
    CASE system = "alsa" -> AlsaIsPossible(libraries)
      [] system = "pa" -> PaIsPossible(libraries)
      [] system = "oss" -> OssIsPossible(libraries)
      [] system = "console" -> ConsoleIsPossible(libraries)
      [] system = "null" -> NullIsPossible(libraries)

(* A client asks; the descriptors that probes of the others open are       *)
(* closed again.                                                           *)
IsPossible(system) ==
    /\ probes[system] < MaxProbes
    /\ \E probe \in Probe(system, loaded) :
          /\ probe.possible
          /\ loaded' = probe.libraries
    /\ probes' = [probes EXCEPT ![system] = @ + 1]
    /\ UNCHANGED <<sink, console>>

(* cw_gen_new(): the first system that is possible is opened; a failure    *)
(* from there on deletes the generator, which closes its device.           *)
NewGenerator(g, sound_system, config_period_size) ==
    /\ sink[g].system = "none"
    /\ \E i \in DOMAIN Tried(sound_system) :
          LET system == Tried(sound_system)[i] IN
          /\ \A j \in 1..i-1 : \E probe \in Probe(Tried(sound_system)[j], loaded) : ~probe.possible
          /\ \E probe \in {p \in Probe(system, loaded) : p.possible},
                result \in OpenAndConfigure(system, config_period_size),
                allocated \in IF Fails("memory") /\ system \in Soundcards THEN BOOLEAN ELSE {TRUE} :
                IF result.done /\ allocated
                THEN /\ sink' = [sink EXCEPT ![g] = result.sink]
                     /\ loaded' = probe.libraries
                ELSE /\ sink' = [sink EXCEPT ![g] = CloseSink(result.sink)]
                     /\ loaded' = Unload(probe.libraries, system)
    /\ console' = [console EXCEPT ![g] = [cw_value |-> "open", beeping |-> FALSE, volume |-> TRUE]]
    /\ UNCHANGED probes

DeleteGenerator(g) ==
    /\ sink[g].system # "none"
    /\ sink' = [sink EXCEPT ![g] = CloseSink(@)]
    /\ loaded' = Unload(loaded, sink[g].system)
    /\ console' = [console EXCEPT ![g].beeping = FALSE]
    /\ UNCHANGED probes

-----------------------------------------------------------------------------
(* Writing to ALSA.                                                        *)

Prepare(g) ==
    \/ sink' = [sink EXCEPT ![g].device = "prepared"]
    \/ Fails("prepare") /\ UNCHANGED sink

(* Mutant: a write that fails after an underrun is only reported.          *)
WriteUnprepared(g) ==
    /\ sink[g].system = "alsa"
    /\ \/ sink[g].device \in {"prepared", "running"} /\ sink' = [sink EXCEPT ![g].device = "running"]
       \/ sink[g].device \in {"xrun", "setup"} /\ UNCHANGED sink
    /\ UNCHANGED <<loaded, probes, console>>

(* A buffer; after an underrun, and where the PCM has not been prepared,   *)
(* the write fails, the PCM is prepared and the buffer is lost.            *)
WriteBuffer(g) ==
    /\ sink[g].system = "alsa"
    /\ \/ sink[g].device \in {"prepared", "running"} /\ sink' = [sink EXCEPT ![g].device = "running"]
       \/ sink[g].device \in {"xrun", "setup"} /\ Prepare(g)
    /\ UNCHANGED <<loaded, probes, console>>

(* The queue is empty: what has been written is played, and the PCM is     *)
(* made ready for the next tone.                                           *)
OnEmptyQueue(g) ==
    /\ sink[g].system = "alsa"
    /\ \/ sink' = [sink EXCEPT ![g].device = "prepared"]
       \/ Fails("prepare") /\ sink' = [sink EXCEPT ![g].device = "setup"]
    /\ UNCHANGED <<loaded, probes, console>>

Underrun(g) ==
    /\ sink[g].system = "alsa" /\ sink[g].device = "running"
    /\ sink' = [sink EXCEPT ![g].device = "xrun"]
    /\ UNCHANGED <<loaded, probes, console>>

-----------------------------------------------------------------------------
(* Writing to the console: the speaker is told when the key changes.       *)

(* The ioctl that starts or stops the speaker.                             *)
Kiocsound(c, cw_value) ==
    {[cw_value |-> cw_value, beeping |-> cw_value = "closed" /\ c.volume, volume |-> c.volume]}
    \cup (IF Fails("ioctl") THEN {[c EXCEPT !.cw_value = cw_value]} ELSE {})

(* Mutant: a tone with slopes leaves it to the next tone.                  *)
LeftToNextTone(c, slope_mode) == {c}

(* The speaker is silenced after a tone whose slope would have ended it.   *)
Silenced(c, slope_mode) ==
    IF slope_mode \in {"falling", "standard"} THEN Kiocsound(c, "open") ELSE {c}

(* The key gives the console no falling slope: it opens with a silent tone *)
(* (cw_gen_enqueue_sk_begin_space_internal()).                             *)
WriteTone(g, sounds, slope_mode) ==
    LET c == console[g]
        cw_value == IF sounds /\ c.volume THEN "closed" ELSE "open"
    IN
    /\ sink[g].system = "console"
    /\ IF cw_value = c.cw_value THEN UNCHANGED console
       ELSE \E told \in Kiocsound(c, cw_value) : \E ended \in Silenced(told, slope_mode) :
                console' = [console EXCEPT ![g] = ended]
    /\ UNCHANGED <<sink, loaded, probes>>

SetVolume(g, audible) ==
    /\ sink[g].system = "console"
    /\ console' = [console EXCEPT ![g].volume = audible]
    /\ UNCHANGED <<sink, loaded, probes>>

-----------------------------------------------------------------------------
SinksInit ==
    /\ sink = [g \in Generators |-> NoSink]
    /\ loaded = [l \in Libraries |-> 0]
    /\ probes = [l \in Libraries |-> 0]
    /\ console = [g \in Generators |-> [cw_value |-> "open", beeping |-> FALSE, volume |-> TRUE]]

SinksNext ==
    \/ \E l \in Libraries : IsPossible(l)
    \/ \E g \in Generators :
          \/ \E s \in Systems \cup {"soundcard"}, size \in {0} \cup PeriodSizes : NewGenerator(g, s, size)
          \/ DeleteGenerator(g)
          \/ WriteBuffer(g) \/ OnEmptyQueue(g) \/ Underrun(g)
          \/ \E sounds \in BOOLEAN, mode \in {"standard", "rising", "none"} :
                WriteTone(g, sounds, mode)
          \/ \E audible \in BOOLEAN : SetVolume(g, audible)

SinksSpec == SinksInit /\ [][SinksNext]_sinkVars

(* The loop of the generator goes on to write, whatever a write returns.   *)
SinksFairness == \A g \in Generators : WF_sinkVars(WriteBuffer(g))

-----------------------------------------------------------------------------
(* A library is loaded as often as generators use it and as clients have   *)
(* been told that it is there: no path through the creation of a generator *)
(* that fails keeps it, or takes it from the others.                       *)
LibrariesAreBalanced ==
    \A l \in Libraries :
        loaded[l] = probes[l] + Cardinality({g \in Generators : sink[g].system = l})

(* The shortest dot has three periods, unless the device has none so short *)
(* or the client has asked for them.                                       *)
PeriodsFitDot ==
    \A g \in Generators :
        sink[g].system = "alsa" /\ sink[g].asked = 0 /\ sink[g].buffer_n_samples \notin PeriodSizes =>
            3 * sink[g].buffer_n_samples <= (sink[g].sample_rate * ShortestDot) \div 1000000

(* The speaker, which is told of changes only, follows the tones all the   *)
(* same: it sounds when a tone does, and goes on after one without a slope *)
(* at its end.                                                             *)
SpeakerFollowsTones ==
    [][\A g \in Generators, sounds \in BOOLEAN, mode \in {"standard", "rising", "none"} :
          WriteTone(g, sounds, mode) =>
              console'[g].beeping = (sounds /\ console[g].volume /\ mode # "standard")]_sinkVars

(* An underrun is not the end of the sound.                                *)
UnderrunIsLeft ==
    \A g \in Generators : sink[g].device = "xrun" ~> sink[g].device # "xrun"

(* A sound system serves the generators that use it, from the creation on, *)
(* that may fail half way, to the tones and the underruns of the device.   *)
SinksAreSound == SpeakerFollowsTones /\ UnderrunIsLeft /\ [](LibrariesAreBalanced /\ PeriodsFitDot)

(* A generator closes what it has opened, once.                            *)
ClosesOnlyWhatIsOpen == \A g \in Generators : ~sink[g].misused
=============================================================================
